---- MODULE Spec2Model ----
(***************************************************************************)
(* Verification model of 01_struct_pdf.py (concatenated evaluation-sheet   *)
(* PDF -> one Markdown file per sheet), of the importer 03_import.py and  *)
(* of the table conversion of 02_md_to_json.py that feeds it.              *)
(*                                                                         *)
(* Texts are sequences of glyphs; a glyph is a string naming one           *)
(* character.  ASCII characters name themselves; the other characters of   *)
(* the source's literals carry a bracketed romanised name, e.g. "<ji>".    *)
(* Coordinates are integers of a free length unit (extract_lines is        *)
(* invariant under scaling coordinates and tolerances together, up to      *)
(* rounding); the running reference of a cluster, 0.7*ref + 0.3*top, is    *)
(* kept as an exact fraction num/den, and the comparison with it accounts  *)
(* for the rounding of binary64 where that changes its outcome.            *)
(***************************************************************************)
EXTENDS Integers, Sequences, FiniteSets, TLC

VARIABLES
    \* ---- extract_lines (one page) ----
    page_chars,   \* page.chars, in the order the decoder supplies them
    line_tol,     \* argument line_tol
    gap_tol,      \* argument gap_tol
    chars,        \* local: indices of page_chars sorted by (top, x0)
    ci,           \* local: position of the for loop in chars
    cur,          \* local: current cluster (indices of page_chars)
    last_top,     \* local: running reference, [num, den] or None
    lines,        \* local / return value: list of line dicts
    el_pc,        \* "off" | "idle" | "loop" | "done"
    \* ---- try_extract_code_and_name_from_lines ----
    id_lines,     \* argument lines
    code_only,    \* local code_only
    id_result,    \* return value [code, name]
    id_pc,        \* "off" | "idle" | "labels" | "done"
    \* ---- find_sections ----
    all_lines,    \* argument all_lines
    sections,     \* return value: the dict, as its items in insertion order
    fs_pc,        \* "off" | "idle" | "done"
    \* ---- main ----
    n_pages,          \* len(pdf.pages)
    code_scan_pages,  \* args.code_scan_pages
    page_lines,       \* page_lines
    sheet_starts,     \* sheet_starts (0-based page indices)
    sheets,           \* sheets: [s, e] pairs (0-based, inclusive)
    used_names,       \* used_names
    si,               \* ordinal of the sheet the second loop is at
    written,          \* the files written so far, in order
    main_pc,          \* "off" | "read" | "sheets" | "done" | "raised"
    \* ---- 03_import.py: main() on a directory, import_program ----
    dir_files,        \* the directory: file name -> content of the file
    program,          \* table program: rows [id, code, name], in insertion order
    child_rows,       \* rows of the tables that reference program.id
    lookup_rows,      \* rows of organization and fiscal_year
    run_files,        \* the files the loop of the run has still to read
    cur_programs,     \* the programs of the current file still to import
    file_skipped,     \* file_skipped
    failed_files,     \* failed_files
    imported_codes,   \* imported_codes
    skipped,          \* skipped
    runs,             \* number of finished runs of main()
    import_log,       \* history: the calls of import_program, [code, name, ret]
    imp_pc,           \* "off" | "idle" | "files" | "programs"
    \* ---- 02_md_to_json.py domain_to_dbjson, 03_import.py load_programs_variant ----
    doc_programs,     \* doc["programs"] of the domain JSON
    tables,           \* the DB-ingest JSON: table name -> rows
    loaded_programs,  \* the programs load_programs_variant returns
    conv_pc           \* "off" | "domain" | "tables" | "loaded"

el_vars == <<page_chars, line_tol, gap_tol, chars, ci, cur, last_top, lines, el_pc>>
id_vars == <<id_lines, code_only, id_result, id_pc>>
fs_vars == <<all_lines, sections, fs_pc>>
main_vars == <<n_pages, code_scan_pages, page_lines, sheet_starts, sheets,
               used_names, si, written, main_pc>>
imp_vars == <<dir_files, program, child_rows, lookup_rows, run_files, cur_programs,
              file_skipped, failed_files, imported_codes, skipped, runs, import_log,
              imp_pc>>
conv_vars == <<doc_programs, tables, loaded_programs, conv_pc>>
vars == <<el_vars, id_vars, fs_vars, main_vars, imp_vars, conv_vars>>

\* What the steps of one function leave alone.
not_el == <<id_vars, fs_vars, main_vars, imp_vars, conv_vars>>
not_id == <<el_vars, fs_vars, main_vars, imp_vars, conv_vars>>
not_fs == <<el_vars, id_vars, main_vars, imp_vars, conv_vars>>
not_main == <<el_vars, id_vars, fs_vars, imp_vars, conv_vars>>
not_imp == <<el_vars, id_vars, fs_vars, main_vars, conv_vars>>
not_conv == <<el_vars, id_vars, fs_vars, main_vars, imp_vars>>

None == "None"

----------------------------------------------------------------------------
(* Generic helpers: Python list/str primitives.                            *)

Min(S) == CHOOSE m \in S : \A k \in S : m <= k
Max(S) == CHOOSE m \in S : \A k \in S : m >= k
Abs(n) == IF n < 0 THEN -n ELSE n

Range(s) == {s[k] : k \in 1..Len(s)}

\* sorted(s, key=...): stable; Less is the strict order of the keys.
StableSort(s, Less(_, _)) ==
    LET n == Len(s)
        rank(k) == Cardinality({j \in 1..n :
                        Less(s[j], s[k]) \/ (~Less(s[k], s[j]) /\ j < k)}) + 1
    IN  [p \in 1..n |-> s[CHOOSE k \in 1..n : rank(k) = p]]

\* Glyphs str.strip() removes: space, tab, newline, U+3000.
SP == " "
TAB == "<tab>"
NL == "<nl>"
IDSP == "<U+3000>"
Whitespace == {SP, TAB, NL, IDSP}

RECURSIVE LStrip(_)
LStrip(s) ==
    IF s # <<>> /\ Head(s) \in Whitespace THEN LStrip(Tail(s)) ELSE s

RECURSIVE RStrip(_)
RStrip(s) ==
    IF s # <<>> /\ s[Len(s)] \in Whitespace
    THEN RStrip(SubSeq(s, 1, Len(s) - 1)) ELSE s

\* str.strip()
Strip(s) == RStrip(LStrip(s))

----------------------------------------------------------------------------
(* extract_lines(page, line_tol, gap_tol)                                  *)

\* A pdfplumber char: text (one glyph) and its box.
MkChar(text, top, x0, w) ==
    [text |-> text, x0 |-> x0, top |-> top, x1 |-> x0 + w, bottom |-> top + w + 1]

\* sorted(page.chars, key=lambda c: (c["top"], c["x0"])), as indices of pc
CharLess(pc, a, b) ==
    \/ pc[a].top < pc[b].top
    \/ pc[a].top = pc[b].top /\ pc[a].x0 < pc[b].x0

SortedChars(pc) ==
    StableSort([k \in 1..Len(pc) |-> k], LAMBDA a, b : CharLess(pc, a, b))

\* sorted(cur, key=lambda c: c["x0"])
CurSorted(pc, cl) == StableSort(cl, LAMBDA a, b : pc[a].x0 < pc[b].x0)

\* Variant of text_parts below that inserts a space when the gap reaches
\* gap_tol.
RECURSIVE TextPartsAtLeast(_, _, _, _)
TextPartsAtLeast(pc, cs, k, gt) ==
    IF k > Len(cs) THEN <<>>
    ELSE (IF k > 1 /\ pc[cs[k]].x0 - pc[cs[k - 1]].x1 >= gt THEN <<SP>> ELSE <<>>)
         \o <<pc[cs[k]].text>> \o TextPartsAtLeast(pc, cs, k + 1, gt)

\* text_parts of flush(): the first glyph, then for each consecutive pair a
\* space when the gap exceeds gap_tol, and the glyph.
RECURSIVE TextParts(_, _, _, _)
TextParts(pc, cs, k, gt) ==
    IF k > Len(cs) THEN <<>>
    ELSE (IF k > 1 /\ pc[cs[k]].x0 - pc[cs[k - 1]].x1 > gt THEN <<SP>> ELSE <<>>)
         \o <<pc[cs[k]].text>> \o TextParts(pc, cs, k + 1, gt)

\* The dict flush() appends; fields cur and parts record the cluster it was
\* built from and the local text_parts (not keys of the source's dict: kept
\* to relate lines to characters).
FlushLine(pc, cl, gt) ==
    [text |-> Strip(TextParts(pc, CurSorted(pc, cl), 1, gt)),
     parts |-> TextParts(pc, CurSorted(pc, cl), 1, gt),
     x0 |-> Min({pc[c].x0 : c \in Range(cl)}),
     y0 |-> Min({pc[c].top : c \in Range(cl)}),
     x1 |-> Max({pc[c].x1 : c \in Range(cl)}),
     y1 |-> Max({pc[c].bottom : c \in Range(cl)}),
     cur |-> cl]

\* Variant of flush() that drops a cluster whose stripped text is empty.
FlushDroppingEmpty(pc, cl, gt, ls) ==
    IF cl = <<>> \/ FlushLine(pc, cl, gt).text = <<>>
    THEN ls ELSE Append(ls, FlushLine(pc, cl, gt))

\* flush(): the new value of lines
Flush(pc, cl, gt, ls) ==
    IF cl = <<>> THEN ls ELSE Append(ls, FlushLine(pc, cl, gt))

\* Variant of the comparison below that is strict.
SameLineStrict(top, lt, tol) == Abs(top * lt.den - lt.num) < tol * lt.den

\* The tops t of CharTops for which (t * 0.7) + (t * 0.3), evaluated in
\* binary64 as line 99 does, is the double just below t (3 and 6; it is t
\* itself for 0 and 5).
BelowInBinary64 == {3, 6}

\* abs(ch["top"] - last_top) <= line_tol, with last_top = num/den. The code
\* compares binary64 values. For the tops of CharTops and the tolerances
\* used here the outcome is that of exact arithmetic except with tolerance 0
\* when the exact reference equals top: then all members have this top, and
\* from the second member on the binary64 reference lies below it for the
\* tops of BelowInBinary64, so the difference is not 0.
SameLine(top, lt, tol) ==
    IF tol = 0 /\ top * lt.den = lt.num
    THEN ~(lt.den > 1 /\ top \in BelowInBinary64)
    ELSE Abs(top * lt.den - lt.num) <= tol * lt.den

\* Variant that moves the reference to the newest character's top.
UpdatedTopToNewest(lt, top) == [num |-> top, den |-> 1]

\* last_top = (last_top * 0.7) + (ch["top"] * 0.3)
UpdatedTop(lt, top) == [num |-> 7 * lt.num + 3 * top * lt.den, den |-> 10 * lt.den]

\* lines.sort(key=lambda ln: (ln["y0"], ln["x0"]))
LineLess(a, b) == a.y0 < b.y0 \/ (a.y0 = b.y0 /\ a.x0 < b.x0)

\* Variant that sorts on x0 alone.
SortedLinesByX0(ls) == StableSort(ls, LAMBDA a, b : a.x0 < b.x0)

SortedLines(ls) == StableSort(ls, LineLess)

\* Entry: sort the chars; a page without chars returns [] at once.
ELStart ==
    /\ el_pc = "idle"
    /\ chars' = SortedChars(page_chars)
    /\ ci' = 1
    /\ cur' = <<>>
    /\ last_top' = None
    /\ lines' = <<>>
    /\ el_pc' = IF page_chars = <<>> THEN "done" ELSE "loop"
    /\ UNCHANGED <<page_chars, line_tol, gap_tol, not_el>>

\* One iteration of `for ch in chars`.
ELStep ==
    /\ el_pc = "loop"
    /\ ci <= Len(chars)
    /\ LET ch == chars[ci]
           top == page_chars[ch].top
       IN  IF cur = <<>>
           THEN /\ cur' = <<ch>>
                /\ last_top' = [num |-> top, den |-> 1]
                /\ lines' = lines
           ELSE IF SameLine(top, last_top, line_tol)
           THEN /\ cur' = Append(cur, ch)
                /\ last_top' = UpdatedTop(last_top, top)
                /\ lines' = lines
           ELSE /\ lines' = Flush(page_chars, cur, gap_tol, lines)
                /\ cur' = <<ch>>
                /\ last_top' = [num |-> top, den |-> 1]
    /\ ci' = ci + 1
    /\ UNCHANGED <<page_chars, line_tol, gap_tol, chars, el_pc, not_el>>

\* After the loop: the last flush, the sort, the return.
ELFinish ==
    /\ el_pc = "loop"
    /\ ci > Len(chars)
    /\ lines' = SortedLines(Flush(page_chars, cur, gap_tol, lines))
    /\ cur' = <<>>
    /\ el_pc' = "done"
    /\ UNCHANGED <<page_chars, line_tol, gap_tol, chars, ci, last_top, not_el>>

\* Inputs of extract_lines.
MaxChars == 3
CharTexts == {"A", SP}
CharTops == {0, 3, 5, 6}
CharLefts == {0, 2}
CharPool ==
    {MkChar(t, top, x0, IF t = SP THEN 1 ELSE 2) :
        t \in CharTexts, top \in CharTops, x0 \in CharLefts}
LineTols == {-1, 5}
GapTols == {0, 1}

SeqsUpTo(S, n) == UNION {[1..k -> S] : k \in 0..n}

InitLines ==
    /\ page_chars \in SeqsUpTo(CharPool, MaxChars)
    /\ line_tol \in LineTols
    /\ gap_tol \in GapTols
    /\ chars = <<>>
    /\ ci = 1
    /\ cur = <<>>
    /\ last_top = None
    /\ lines = <<>>
    /\ el_pc = "idle"

NextLines == ELStart \/ ELStep \/ ELFinish

\* Inputs of extract_lines with tolerances that are not negative.
TieTols == {0, 5}
InitTies ==
    /\ page_chars \in SeqsUpTo(CharPool, MaxChars)
    /\ line_tol \in TieTols
    /\ gap_tol \in GapTols
    /\ chars = <<>>
    /\ ci = 1
    /\ cur = <<>>
    /\ last_top = None
    /\ lines = <<>>
    /\ el_pc = "idle"

----------------------------------------------------------------------------
(* Glyphs of the source's literals, and str / re primitives on texts.       *)

FWCOLON == "<fullwidth :>"
FWSLASH == "<fullwidth />"
FWA == "<fullwidth A>"
EMDASH == "<U+2014>"
HBAR == "<U+2015>"

DigitSeq == <<"0", "1", "2", "3", "4", "5", "6", "7", "8", "9">>
UpperSeq == <<"A", "B", "C", "D", "E", "F", "G", "H", "I", "J", "K", "L", "M",
              "N", "O", "P", "Q", "R", "S", "T", "U", "V", "W", "X", "Y", "Z">>
LowerSeq == <<"a", "b", "c", "d", "e", "f", "g", "h", "i", "j", "k", "l", "m",
              "n", "o", "p", "q", "r", "s", "t", "u", "v", "w", "x", "y", "z">>
\* [0-9A-Za-z]
AlNum == Range(DigitSeq) \cup Range(UpperSeq) \cup Range(LowerSeq)

\* The literals: 事務事業コード, 事業コード, コード, 事業, 事務事業評価シート, 事業の概要
JIGYOU == <<"<ji>", "<gyou>">>
CODE == <<"<ko>", "<->", "<do>">>
JIGYOU_CODE == JIGYOU \o CODE
JIMU_JIGYOU_CODE == <<"<ji>", "<mu>">> \o JIGYOU_CODE
SHEET_START == <<"<ji>", "<mu>">> \o JIGYOU \o <<"<hyou>", "<ka>", "<shi>", "<->", "<to>">>
OVERVIEW == JIGYOU \o <<"<no>", "<gai>", "<you>">>

\* BUSINESS_NAME_STOP_TOKENS: 有 無 あり なし 有り 無し — ―
BUSINESS_NAME_STOP_TOKENS ==
    {<<"<yuu>">>, <<"<nai>">>, <<"<a>", "<ri>">>, <<"<na>", "<si>">>,
     <<"<yuu>", "<ri>">>, <<"<nai>", "<si>">>, <<EMDASH>>, <<HBAR>>}

\* s[p:] starts with lit (p is 1-based)
StartsAt(s, p, lit) ==
    /\ p >= 1
    /\ p + Len(lit) - 1 <= Len(s)
    /\ SubSeq(s, p, p + Len(lit) - 1) = lit

\* lit in s
Contains(s, lit) == \E p \in 1..Len(s) + 1 : StartsAt(s, p, lit)

\* str.lower() on one glyph, for re.IGNORECASE
LowerOf(g) ==
    IF g \in Range(UpperSeq)
    THEN LowerSeq[CHOOSE k \in 1..Len(UpperSeq) : UpperSeq[k] = g]
    ELSE g

ToLower(s) == [k \in 1..Len(s) |-> LowerOf(s[k])]

\* unicodedata.normalize("NFKC", s) on one glyph: the compatibility forms of
\* the alphabet map to their ASCII characters.
NFKCOf(g) ==
    CASE g = FWCOLON -> ":" [] g = FWSLASH -> "/" [] g = IDSP -> SP [] g = FWA -> "A"
      [] OTHER -> g

\* normalize_token(s)
normalize_token(s) == Strip([k \in 1..Len(s) |-> NFKCOf(s[k])])

\* s.strip(" .")
RECURSIVE StripDots(_)
StripDots(s) ==
    IF s # <<>> /\ Head(s) \in {SP, "."} THEN StripDots(Tail(s))
    ELSE IF s # <<>> /\ s[Len(s)] \in {SP, "."}
    THEN StripDots(SubSeq(s, 1, Len(s) - 1))
    ELSE s

\* safe_filename(s)
safe_filename(s) ==
    LET n == normalize_token(s)
        r == [k \in 1..Len(n) |-> IF n[k] \in {"/", "\\"} THEN "-" ELSE n[k]]
        t == StripDots(r)
    IN  IF t # <<>> THEN t ELSE <<"s", "h", "e", "e", "t">>

\* "sep".join(parts)
RECURSIVE Join(_, _)
Join(parts, sep) ==
    IF parts = <<>> THEN <<>>
    ELSE IF Len(parts) = 1 THEN parts[1]
    ELSE parts[1] \o sep \o Join(Tail(parts), sep)

\* Length of the longest run of glyphs of S starting at s[p]
RECURSIVE RunLen(_, _, _)
RunLen(s, p, S) ==
    IF p <= Len(s) /\ s[p] \in S THEN 1 + RunLen(s, p + 1, S) ELSE 0

\* Length of the longest run of glyphs outside S starting at s[p]
RECURSIVE RunLenNot(_, _, _)
RunLenNot(s, p, S) ==
    IF p <= Len(s) /\ s[p] \notin S THEN 1 + RunLenNot(s, p + 1, S) ELSE 0

----------------------------------------------------------------------------
(* Identifier extraction: try_extract_code_from_text,                       *)
(* try_extract_code_from_lines, try_extract_code_and_name_from_lines.       *)

\* Python's None where a str is expected (never equal to a text of glyphs of
\* a page); a value is truthy when it is neither None nor "".
NoneText == <<"<None>">>
Truthy(t) == t # NoneText /\ t # <<>>

\* [：:\s] and the complement of [^\s　/／] in CODE_LABEL_RES
LabelSeps == {":", FWCOLON} \cup Whitespace
CodeExcluded == Whitespace \cup {"/", FWSLASH}

\* The separator counts k for which  label [：:\s]{k} ([^\s　/／]+)  matches at
\* s[p:]: the regex engine takes the largest (the separators are greedy and
\* give back glyphs only when no code glyph follows).
LabelSepCounts(s, p, label) ==
    LET q == p + Len(label)
    IN  {k \in 0..RunLen(s, q, LabelSeps) : q + k <= Len(s) /\ s[q + k] \notin CodeExcluded}

LabelMatchesAt(s, p, label) ==
    StartsAt(s, p, label) /\ LabelSepCounts(s, p, label) # {}

\* Variant of the search below whose group starts right after the label,
\* the separators being part of the code.
LabelSearchKeepingSeparators(s, label) ==
    LET ps == {p \in 1..Len(s) : LabelMatchesAt(s, p, label)}
    IN  IF ps = {} THEN NoneText
        ELSE LET g == Min(ps) + Len(label)
             IN  SubSeq(s, g, g + RunLenNot(s, g, CodeExcluded) - 1)

\* rx.search(s): group(1) of the leftmost match, or None
LabelSearch(s, label) ==
    LET ps == {p \in 1..Len(s) : LabelMatchesAt(s, p, label)}
    IN  IF ps = {} THEN NoneText
        ELSE LET p == Min(ps)
                 g == p + Len(label) + Max(LabelSepCounts(s, p, label))
             IN  SubSeq(s, g, g + RunLenNot(s, g, CodeExcluded) - 1)

\* try_extract_code_from_text(text): CODE_LABEL_RES in order
try_extract_code_from_text(text) ==
    LET text_norm == normalize_token(text)
        m1 == LabelSearch(text_norm, JIMU_JIGYOU_CODE)
        m2 == LabelSearch(text_norm, JIGYOU_CODE)
    IN  IF m1 # NoneText THEN normalize_token(m1)
        ELSE IF m2 # NoneText THEN normalize_token(m2)
        ELSE NoneText

\* "\n".join(ln["text"] for ln in lines if ln["text"])
JoinedText(ls) ==
    LET kept == SelectSeq(ls, LAMBDA l : l.text # <<>>)
    IN  Join([k \in 1..Len(kept) |-> kept[k].text], <<NL>>)

\* Strategy 1 of try_extract_code_from_lines
InlineLabelCode(ls) == try_extract_code_from_text(JoinedText(ls))

\* c.split()[0] if " " in c else c   (c is stripped and not empty)
FirstTokenIfSpaced(c) ==
    IF SP \in Range(c) THEN SubSeq(c, 1, RunLenNot(c, 1, Whitespace)) ELSE c

\* First truthy value of cands[k] mapped by Tok, among the first three
RECURSIVE FirstTruthyOf(_, _)
FirstTruthyOf(toks, k) ==
    IF k > Len(toks) \/ k > 3 THEN NoneText
    ELSE IF Truthy(toks[k]) THEN toks[k]
    ELSE FirstTruthyOf(toks, k + 1)

\* The right_candidates of label line ln, sorted by (x0, y0); the centres
\* (y0+y1)/2.0 are compared doubled.
RightCandidates(ls, ln) ==
    StableSort(
        SelectSeq(ls, LAMBDA l :
            /\ Abs((l.y0 + l.y1) - (ln.y0 + ln.y1)) <= 2 * 3
            /\ l.x0 > ln.x1 + 2
            /\ l.text # <<>>),
        LAMBDA a, b : a.x0 < b.x0 \/ (a.x0 = b.x0 /\ a.y0 < b.y0))

\* The below_candidates of label line ln, sorted by (y0, x0)
BelowCandidates(ls, ln) ==
    StableSort(
        SelectSeq(ls, LAMBDA l :
            /\ l.y0 > ln.y1
            /\ l.x0 >= ln.x0 - 5
            /\ l.x0 <= ln.x1 + 100),
        LAMBDA a, b : a.y0 < b.y0 \/ (a.y0 = b.y0 /\ a.x0 < b.x0))

\* What one label line yields: a token to its right, else a line below it
LabelLineCode(ls, ln) ==
    LET rc == RightCandidates(ls, ln)
        bc == BelowCandidates(ls, ln)
        rt == FirstTruthyOf([k \in 1..Len(rc) |->
                  FirstTokenIfSpaced(normalize_token(rc[k].text))], 1)
        bt == FirstTruthyOf([k \in 1..Len(bc) |-> normalize_token(bc[k].text)], 1)
    IN  IF rt # NoneText THEN rt ELSE bt

IsLabelLine(ln) == Contains(ln.text, JIMU_JIGYOU_CODE) \/ Contains(ln.text, JIGYOU_CODE)

\* Strategy 2 of try_extract_code_from_lines: the label lines in order
RECURSIVE SpatialLabelCodeFrom(_, _)
SpatialLabelCodeFrom(ls, k) ==
    IF k > Len(ls) THEN NoneText
    ELSE IF IsLabelLine(ls[k]) /\ LabelLineCode(ls, ls[k]) # NoneText
    THEN LabelLineCode(ls, ls[k])
    ELSE SpatialLabelCodeFrom(ls, k + 1)

SpatialLabelCode(ls) == SpatialLabelCodeFrom(ls, 1)

\* try_extract_code_from_lines(lines)
try_extract_code_from_lines(ls) ==
    IF Truthy(InlineLabelCode(ls)) THEN InlineLabelCode(ls) ELSE SpatialLabelCode(ls)

\* [ \t　] of re_line and of the token split
Blank == {SP, TAB, IDSP}

\* (有|無|...)(?:$|[ \t　]) at t[e:]
StopTokenAt(t, e) ==
    \E tok \in BUSINESS_NAME_STOP_TOKENS :
        /\ StartsAt(t, e, tok)
        /\ \/ e + Len(tok) = Len(t) + 1
           \/ e + Len(tok) <= Len(t) /\ t[e + Len(tok)] \in Blank

\* re_line.match(t): the pairs <<w, n>> (blanks after the code, length of the
\* name) for which the pattern matches; c is the length of the code.
ReLineSplits(t) ==
    LET c == RunLen(t, 1, AlNum)
    IN  IF c < 4 THEN {}
        ELSE {wn \in (1..RunLen(t, c + 1, Blank)) \X (1..Len(t)) :
                LET a == c + wn[1] + 1
                    b == a + wn[2]
                IN  /\ b <= Len(t)
                    /\ \A k \in a..(b - 1) : t[k] # NL
                    /\ RunLen(t, b, Blank) >= 1
                    /\ StopTokenAt(t, b + RunLen(t, b, Blank))}

ReLineMatches(text) == ReLineSplits(normalize_token(text)) # {}

\* The groups of the match the engine finds first: the blanks after the code
\* are greedy (largest w), the name is lazy (smallest n).
ReLineGroups(text) ==
    LET t == normalize_token(text)
        c == RunLen(t, 1, AlNum)
        sp == ReLineSplits(t)
        w == Max({wn[1] : wn \in sp})
        n == Min({wn[2] : wn \in {x \in sp : x[1] = w}})
    IN  [code |-> normalize_token(SubSeq(t, 1, c)),
         name |-> normalize_token(SubSeq(t, c + w + 1, c + w + n))]

\* re.split(r"[ \t　]+", raw) for a raw that neither starts nor ends blank
RECURSIVE SplitBlank(_)
SplitBlank(raw) ==
    LET n == RunLenNot(raw, 1, Blank)
        r == RunLen(raw, n + 1, Blank)
    IN  IF n = Len(raw) THEN <<raw>>
        ELSE <<SubSeq(raw, 1, n)>> \o SplitBlank(SubSeq(raw, n + r + 1, Len(raw)))

\* The tokens before the first stop token
RECURSIVE NameTokens(_)
NameTokens(toks) ==
    IF toks = <<>> \/ Head(toks) \in BUSINESS_NAME_STOP_TOKENS THEN <<>>
    ELSE <<Head(toks)>> \o NameTokens(Tail(toks))

\* Whether the token loop returns at this line
TokenSplitMatches(text) ==
    LET raw == normalize_token(text)
        tokens == SplitBlank(raw)
    IN  /\ raw # <<>>
        /\ Len(tokens) >= 2
        /\ RunLen(tokens[1], 1, AlNum) = Len(tokens[1])
        /\ Len(tokens[1]) >= 4
        /\ NameTokens(Tail(tokens)) # <<>>

TokenSplitGroups(text) ==
    LET tokens == SplitBlank(normalize_token(text))
    IN  [code |-> tokens[1], name |-> Join(NameTokens(Tail(tokens)), <<SP>>)]

\* Index of the first line satisfying P, or 0
FirstIndex(ls, P(_)) ==
    LET ks == {k \in 1..Len(ls) : P(ls[k])}
    IN  IF ks = {} THEN 0 ELSE Min(ks)

\* Variant of the function below in which a code found by the label
\* strategies is kept and the line patterns only supply what is missing.
LabelFirstPatterns(ls, co) ==
    LET r == FirstIndex(ls, LAMBDA l : ReLineMatches(l.text))
        k == FirstIndex(ls, LAMBDA l : TokenSplitMatches(l.text))
        found == IF r > 0 THEN ReLineGroups(ls[r].text)
                 ELSE IF k > 0 THEN TokenSplitGroups(ls[k].text)
                 ELSE [code |-> co, name |-> NoneText]
    IN  [code |-> IF Truthy(co) THEN co ELSE found.code, name |-> found.name]

\* Variant of the function below with a single loop trying both line
\* patterns on each line.
SingleLoopPatterns(ls, co) ==
    LET k == FirstIndex(ls, LAMBDA l : ReLineMatches(l.text) \/ TokenSplitMatches(l.text))
    IN  IF k = 0 THEN [code |-> co, name |-> NoneText]
        ELSE IF ReLineMatches(ls[k].text) THEN ReLineGroups(ls[k].text)
        ELSE TokenSplitGroups(ls[k].text)

\* try_extract_code_and_name_from_lines after code_only is computed: the
\* re_line loop, the token loop, the final return.
PatternsCodeAndName(ls, co) ==
    LET r == FirstIndex(ls, LAMBDA l : ReLineMatches(l.text))
        k == FirstIndex(ls, LAMBDA l : TokenSplitMatches(l.text))
    IN  IF r > 0 THEN ReLineGroups(ls[r].text)
        ELSE IF k > 0 THEN TokenSplitGroups(ls[k].text)
        ELSE [code |-> co, name |-> NoneText]

\* try_extract_code_and_name_from_lines(lines): (code, name)
try_extract_code_and_name_from_lines(ls) ==
    PatternsCodeAndName(ls, try_extract_code_from_lines(ls))

\* code_only = try_extract_code_from_lines(lines)
IdLabels ==
    /\ id_pc = "idle"
    /\ code_only' = try_extract_code_from_lines(id_lines)
    /\ id_pc' = "labels"
    /\ UNCHANGED <<id_lines, id_result, not_id>>

\* The two loops over the lines and the return.
IdPatterns ==
    /\ id_pc = "labels"
    /\ id_result' = PatternsCodeAndName(id_lines, code_only)
    /\ id_pc' = "done"
    /\ UNCHANGED <<id_lines, code_only, not_id>>

\* A line dict as the extraction functions read it.
MkLine(text, x0, y0, w) ==
    [text |-> text, x0 |-> x0, y0 |-> y0, x1 |-> x0 + w, y1 |-> y0 + 2]

\* Inputs of the identifier extraction: a labelled code, a bare label with a
\* value to its right, a code-name-marker line, a code-name line, plain text.
MaxIdLines == 3
IdLinePool ==
    {MkLine(JIMU_JIGYOU_CODE \o <<FWCOLON, "X", "0", "0", "1">>, 0, 10, 12),
     MkLine(JIGYOU_CODE, 0, 21, 5),
     MkLine(<<"X", "0", "0", "2">>, 20, 20, 4),
     MkLine(<<"P", "X", "B", "1", SP, SP, "<x>", "<ji>", "<gyou>", SP, "<yuu>">>, 0, 30, 11),
     MkLine(<<"A", "B", "C", "D", IDSP, "<x>">>, 0, 40, 6),
     MkLine(<<"<x>", "<ji>", "<gyou>">>, 0, 50, 3),
     MkLine(<<>>, 0, 25, 0)}

InitIdent ==
    /\ id_lines \in SeqsUpTo(IdLinePool, MaxIdLines)
    /\ code_only = NoneText
    /\ id_result = [code |-> NoneText, name |-> NoneText]
    /\ id_pc = "idle"

NextIdent == IdLabels \/ IdPatterns

----------------------------------------------------------------------------
(* find_sections(all_lines)                                                *)

\* The keys of HEADER_PATTERNS in declaration order.
HeaderKeys == <<"overview", "plan", "do", "check", "action">>

\* pat.search(t) for the pattern of key. The four PDCA patterns are
\* alternations "<kanji>.*Word|Word" under re.IGNORECASE: they match exactly
\* the texts that contain Word in any case.
HeaderWord(key) ==
    CASE key = "plan" -> <<"p", "l", "a", "n">>
      [] key = "do" -> <<"d", "o">>
      [] key = "check" -> <<"c", "h", "e", "c", "k">>
      [] key = "action" -> <<"a", "c", "t", "i", "o", "n">>

PatternSearch(key, t) ==
    IF key = "overview" THEN Contains(t, OVERVIEW)
    ELSE Contains(ToLower(t), HeaderWord(key))

\* The inner loop with its break: index in HeaderKeys of the first pattern
\* that matches t, or 0.
FirstPattern(t) ==
    LET ks == {k \in 1..Len(HeaderKeys) : PatternSearch(HeaderKeys[k], t)}
    IN  IF ks = {} THEN 0 ELSE Min(ks)

\* marks: (key, i) for each line that matches a pattern, by ascending i
RECURSIVE MarksFrom(_, _)
MarksFrom(ls, i) ==
    IF i > Len(ls) THEN <<>>
    ELSE (IF FirstPattern(ls[i].text) > 0
          THEN <<[key |-> HeaderKeys[FirstPattern(ls[i].text)], i |-> i]>>
          ELSE <<>>) \o MarksFrom(ls, i + 1)

Marks(ls) == StableSort(MarksFrom(ls, 1), LAMBDA a, b : a.i < b.i)

\* Variant of the slice below that keeps the empty texts.
RECURSIVE TextsOfSlice(_, _, _)
TextsOfSlice(ls, a, b) ==
    IF a > b \/ a > Len(ls) THEN <<>>
    ELSE <<ls[a].text>> \o TextsOfSlice(ls, a + 1, b)

\* [ln["text"] for ln in all_lines[a:b] if ln["text"]], for 1-based a..b
RECURSIVE NonEmptyTexts(_, _, _)
NonEmptyTexts(ls, a, b) ==
    IF a > b \/ a > Len(ls) THEN <<>>
    ELSE (IF ls[a].text # <<>> THEN <<ls[a].text>> ELSE <<>>)
         \o NonEmptyTexts(ls, a + 1, b)

\* Variant of the dict update that assigns the body instead of extending.
AssignBody(secs, key, body) ==
    IF \E k \in 1..Len(secs) : secs[k].key = key
    THEN [k \in 1..Len(secs) |->
            IF secs[k].key = key THEN [key |-> key, lines |-> body] ELSE secs[k]]
    ELSE Append(secs, [key |-> key, lines |-> body])

\* sections.setdefault(key, []).extend(body)
ExtendBody(secs, key, body) ==
    IF \E k \in 1..Len(secs) : secs[k].key = key
    THEN [k \in 1..Len(secs) |->
            IF secs[k].key = key
            THEN [key |-> key, lines |-> secs[k].lines \o body] ELSE secs[k]]
    ELSE Append(secs, [key |-> key, lines |-> body])

\* Variant of the loop whose body starts at the header line itself.
RECURSIVE SliceFromHeader(_, _, _, _)
SliceFromHeader(ls, marks, idx, secs) ==
    IF idx > Len(marks) THEN secs
    ELSE LET start == marks[idx].i
             end == IF idx + 1 <= Len(marks) THEN marks[idx + 1].i - 1 ELSE Len(ls)
         IN  SliceFromHeader(ls, marks, idx + 1,
                 ExtendBody(secs, marks[idx].key, NonEmptyTexts(ls, start, end)))

\* The loop over marks, from mark idx on
RECURSIVE SliceFrom(_, _, _, _)
SliceFrom(ls, marks, idx, secs) ==
    IF idx > Len(marks) THEN secs
    ELSE LET start == marks[idx].i
             end == IF idx + 1 <= Len(marks) THEN marks[idx + 1].i - 1 ELSE Len(ls)
         IN  SliceFrom(ls, marks, idx + 1,
                 ExtendBody(secs, marks[idx].key, NonEmptyTexts(ls, start + 1, end)))

\* Variant whose document section keeps the empty lines too.
DocumentOfAllLines(ls) ==
    IF Marks(ls) = <<>>
    THEN <<[key |-> "document", lines |-> [k \in 1..Len(ls) |-> ls[k].text]]>>
    ELSE SliceFrom(ls, Marks(ls), 1, <<>>)

\* find_sections(all_lines)
find_sections(ls) ==
    IF Marks(ls) = <<>>
    THEN <<[key |-> "document", lines |-> NonEmptyTexts(ls, 1, Len(ls))]>>
    ELSE SliceFrom(ls, Marks(ls), 1, <<>>)

FindSections ==
    /\ fs_pc = "idle"
    /\ sections' = find_sections(all_lines)
    /\ fs_pc' = "done"
    /\ UNCHANGED <<all_lines, not_fs>>

\* names: the display name of each section key
SectionNames(key) ==
    CASE key = "overview" -> OVERVIEW
      [] key = "plan" -> <<"<kei>", "<kaku>", "<fullwidth (>", "P", "l", "a", "n", "<fullwidth )>">>
      [] key = "do" -> <<"<jitsu>", "<shi2>", "<ketsu>", "<ka2>", "<fullwidth (>", "D", "o", "<fullwidth )>">>
      [] key = "check" -> <<"<hyou>", "<ka>", "<fullwidth (>", "C", "h", "e", "c", "k", "<fullwidth )>">>
      [] key = "action" -> <<"<kai>", "<zen>", "<fullwidth (>", "A", "c", "t", "i", "o", "n", "<fullwidth )>">>
      [] key = "document" -> <<"<hon>", "<bun>">>
      [] OTHER -> key

\* Inputs of find_sections: headers (one matching two patterns, one in lower
\* case), content lines and an empty line.
MaxSecLines == 4
SecTexts ==
    {OVERVIEW,
     <<"P", "l", "a", "n">>,
     <<"D", "o", SP, "P", "l", "a", "n">>,
     <<"d", "o">>,
     <<"<x>">>,
     <<"A", "B">>,
     <<>>}
SecLinePool == {MkLine(t, 0, 0, Len(t)) : t \in SecTexts}

InitSections ==
    /\ all_lines \in SeqsUpTo(SecLinePool, MaxSecLines)
    /\ sections = <<>>
    /\ fs_pc = "idle"

\* Records that are split a second time: two headers of one key, a header
\* of another key, a content line and an empty line.
MaxResplitLines == 4
ResplitTexts ==
    {<<"P", "l", "a", "n">>,
     <<"D", "o", SP, "P", "l", "a", "n">>,
     <<"d", "o">>,
     <<"<x>">>,
     <<>>}
InitResplit ==
    /\ all_lines \in SeqsUpTo({MkLine(t, 0, 0, Len(t)) : t \in ResplitTexts}, MaxResplitLines)
    /\ sections = <<>>
    /\ fs_pc = "idle"

NextSections == FindSections

----------------------------------------------------------------------------
(* main(): read the pages, cut the sheets, write one file per sheet.       *)

\* is_sheet_start(lines)
is_sheet_start(ls) == \E k \in 1..Len(ls) : Contains(ls[k].text, SHEET_START)

\* Variant of the end page below that ends a sheet on the next start page.
SheetEndAtNextStart(starts, i, n) ==
    IF i + 1 <= Len(starts) THEN starts[i + 1] ELSE n - 1

\* e of sheet i: the page before the next start, or the last page
SheetEnd(starts, i, n) ==
    IF i + 1 <= Len(starts) THEN starts[i + 1] - 1 ELSE n - 1

\* Lines 308-312: sheets from sheet_starts and len(pdf.pages)
SheetsOf(starts0, n) ==
    LET starts == IF starts0 = <<>> THEN <<0>> ELSE starts0
    IN  [i \in 1..Len(starts) |-> [s |-> starts[i], e |-> SheetEnd(starts, i, n)]]

\* The lines of pages a..b (0-based, inclusive) of pl, concatenated
RECURSIVE PagesLines(_, _, _)
PagesLines(pl, a, b) ==
    IF a > b THEN <<>> ELSE pl[a + 1] \o PagesLines(pl, a + 1, b)

\* str(n) for n >= 0
RECURSIVE Decimal(_)
Decimal(n) ==
    IF n < 10 THEN <<DigitSeq[n + 1]>>
    ELSE Decimal(n \div 10) \o <<DigitSeq[(n % 10) + 1]>>

\* f"{n:02d}"
Decimal02(n) == IF n < 10 THEN <<"0">> \o Decimal(n) ELSE Decimal(n)

\* s[:n]
Prefix(s, n) == SubSeq(s, 1, IF Len(s) < n THEN Len(s) ELSE n)

\* Lines 327-336: the name taken from the first lines of the window when a
\* code is known and no name is.
BackfillMatches(t) ==
    /\ t # <<>>
    /\ ~Contains(t, CODE)
    /\ 3 <= Len(t)
    /\ Len(t) <= 40
    /\ Contains(t, JIGYOU)

\* Variant of the backfill below that runs whenever no name is known.
BackfilledNameWithoutCode(code, biz_name, cands) ==
    IF ~Truthy(biz_name)
    THEN LET first40 == Prefix(cands, 40)
             k == FirstIndex(first40, LAMBDA l : BackfillMatches(normalize_token(l.text)))
         IN  IF k > 0 THEN normalize_token(first40[k].text) ELSE biz_name
    ELSE biz_name

\* Variant of the backfill below that scans every line of the window.
BackfilledNameAllLines(code, biz_name, cands) ==
    IF Truthy(code) /\ ~Truthy(biz_name)
    THEN LET k == FirstIndex(cands, LAMBDA l : BackfillMatches(normalize_token(l.text)))
         IN  IF k > 0 THEN normalize_token(cands[k].text) ELSE biz_name
    ELSE biz_name

BackfilledName(code, biz_name, cands) ==
    IF Truthy(code) /\ ~Truthy(biz_name)
    THEN LET first40 == Prefix(cands, 40)
             k == FirstIndex(first40, LAMBDA l : BackfillMatches(normalize_token(l.text)))
         IN  IF k > 0 THEN normalize_token(first40[k].text) ELSE biz_name
    ELSE biz_name

\* Lines 351 and 365: the placeholder title, and the "sheet" prefix
PlaceholderTitle(n) == SHEET_START \o <<SP>> \o Decimal(n)
SheetPrefix(n) == <<"s", "h", "e", "e", "t">> \o Decimal02(n) \o <<"_">>

\* Variant of the title below that leaves the code out.
TitleWithoutCode(code, biz_name, first_page, n) ==
    IF Truthy(biz_name) THEN biz_name
    ELSE LET k == FirstIndex(first_page, LAMBDA l : Strip(l.text) # <<>>)
         IN  IF k > 0 THEN Strip(first_page[k].text) ELSE PlaceholderTitle(n)

\* Lines 339-351: title
TitleOf(code, biz_name, first_page, n) ==
    IF Truthy(code) /\ Truthy(biz_name) THEN code \o <<SP>> \o biz_name
    ELSE IF Truthy(biz_name) THEN biz_name
    ELSE LET k == FirstIndex(first_page, LAMBDA l : Strip(l.text) # <<>>)
         IN  IF k > 0 THEN Strip(first_page[k].text) ELSE PlaceholderTitle(n)

\* Variant of the base name below that sanitizes the title when no name is
\* known.
BaseNameFromTitle(code, biz_name, title, n) ==
    IF Truthy(code) /\ Truthy(biz_name)
    THEN safe_filename(code \o <<"_">> \o biz_name)
    ELSE safe_filename(title)

\* Lines 357-365: base_name
BaseNameOf(code, biz_name, title, n) ==
    IF Truthy(code)
    THEN IF Truthy(biz_name) THEN safe_filename(code \o <<"_">> \o biz_name)
         ELSE safe_filename(code)
    ELSE safe_filename(SheetPrefix(n) \o Prefix(normalize_token(title), 20))

DotMd == <<".", "m", "d">>
Suffixed(base_name, dup_idx) == base_name \o <<"_">> \o Decimal(dup_idx) \o DotMd

\* Variant of the file name below that tries the suffix _2 only.
FileNameFirstSuffix(base_name, used) ==
    IF base_name \o DotMd \notin used THEN base_name \o DotMd
    ELSE Suffixed(base_name, 2)

\* Variant of the file name below whose suffix counts the names in use.
FileNameCountingUsed(base_name, used) ==
    IF base_name \o DotMd \notin used THEN base_name \o DotMd
    ELSE Suffixed(base_name, Cardinality(used) + 1)

\* Lines 366-374: file_name; the while loop stops at the first dup_idx >= 2
\* whose name is unused, which is at most len(used_names) + 2.
FileNameOf(base_name, used) ==
    IF base_name \o DotMd \notin used THEN base_name \o DotMd
    ELSE Suffixed(base_name,
            Min({d \in 2..(Cardinality(used) + 2) : Suffixed(base_name, d) \notin used}))

\* Lines 378-406: md_parts, the pieces of the Markdown text. A piece is the
\* text of one str; out_path.write_text writes their concatenation.
TitlePart(title) == <<"#", SP>> \o title \o <<NL, NL>>
HeadingPart(name) == <<"#", "#", SP>> \o name \o <<NL, NL>>
LineParts(body) == [k \in 1..Len(body) |-> body[k] \o <<NL>>]
SectionParts(name, body) == <<HeadingPart(name)>> \o LineParts(body) \o << <<NL>> >>

\* order (line 380), and sections.get(key, [])
order == HeaderKeys
SectionsGet(secs, key) ==
    IF \E k \in 1..Len(secs) : secs[k].key = key
    THEN secs[CHOOSE k \in 1..Len(secs) : secs[k].key = key].lines
    ELSE <<>>

\* Variant of the loop over order that follows the order of the mapping.
RECURSIVE PartsInMappingOrder(_, _)
PartsInMappingOrder(secs, k) ==
    IF k > Len(secs) THEN <<>>
    ELSE (IF secs[k].key \in Range(order) /\ secs[k].lines # <<>>
          THEN SectionParts(SectionNames(secs[k].key), secs[k].lines)
          ELSE <<>>) \o PartsInMappingOrder(secs, k + 1)

\* Lines 390-395: for key in order, from order[k] on
RECURSIVE OrderedParts(_, _)
OrderedParts(secs, k) ==
    IF k > Len(order) THEN <<>>
    ELSE (IF SectionsGet(secs, order[k]) # <<>>
          THEN SectionParts(SectionNames(order[k]), SectionsGet(secs, order[k]))
          ELSE <<>>) \o OrderedParts(secs, k + 1)

\* Lines 396-402: the other keys, in the order of the mapping
RECURSIVE OtherParts(_, _)
OtherParts(secs, k) ==
    IF k > Len(secs) THEN <<>>
    ELSE (IF secs[k].key \notin Range(order) /\ secs[k].lines # <<>>
          THEN SectionParts(SectionNames(secs[k].key), secs[k].lines)
          ELSE <<>>) \o OtherParts(secs, k + 1)

\* Lines 378-407: md_parts
MdParts(title, secs) ==
    LET any_written == \E k \in 1..Len(secs) : secs[k].lines # <<>>
    IN  <<TitlePart(title)>> \o OrderedParts(secs, 1) \o OtherParts(secs, 1)
        \o (IF any_written THEN <<>>
            ELSE SectionParts(SectionNames("document"), SectionsGet(secs, "document")))

\* Variant of the end of the scan window below that is the end of the sheet.
ScanEndOfSheet(sidx, scan_pages, eidx) == eidx

\* Line 320: scan_end_page = min(sidx + args.code_scan_pages - 1, eidx)
ScanEndPage(sidx, scan_pages, eidx) ==
    IF sidx + scan_pages - 1 < eidx THEN sidx + scan_pages - 1 ELSE eidx

\* Lines 300-306: one iteration of the loop over pdf.pages; extract_lines'
\* return value for the page is ls.
ReadPage(ls) ==
    /\ main_pc = "read"
    /\ Len(page_lines) < n_pages
    /\ LET pidx == Len(page_lines)
       IN  /\ page_lines' = Append(page_lines,
                  [k \in 1..Len(ls) |->
                      [text |-> ls[k].text, x0 |-> ls[k].x0, y0 |-> ls[k].y0,
                       x1 |-> ls[k].x1, y1 |-> ls[k].y1, page |-> pidx + 1]])
           /\ sheet_starts' = IF is_sheet_start(ls) THEN Append(sheet_starts, pidx)
                              ELSE sheet_starts
    /\ UNCHANGED <<n_pages, code_scan_pages, sheets, used_names, si, written, main_pc, not_main>>

\* Lines 308-312: after the last page, the sheets.
CutSheets ==
    /\ main_pc = "read"
    /\ Len(page_lines) = n_pages
    /\ sheets' = SheetsOf(sheet_starts, n_pages)
    /\ sheet_starts' = IF sheet_starts = <<>> THEN <<0>> ELSE sheet_starts
    /\ si' = 1
    /\ main_pc' = "sheets"
    /\ UNCHANGED <<n_pages, code_scan_pages, page_lines, used_names, written, not_main>>

\* Lines 314-409: one iteration of the loop over sheets. With no page at all
\* the only sheet is (0, -1) and page_lines[sidx] raises IndexError.
WriteSheet ==
    /\ main_pc = "sheets"
    /\ si <= Len(sheets)
    /\ LET sidx == sheets[si].s
           eidx == sheets[si].e
           sheet_lines == PagesLines(page_lines, sidx, eidx)
           scan_end_page == ScanEndPage(sidx, code_scan_pages, eidx)
           candidate_lines == PagesLines(page_lines, sidx, scan_end_page)
           found == try_extract_code_and_name_from_lines(candidate_lines)
           code == found.code
           biz_name == BackfilledName(code, found.name, candidate_lines)
           needs_first_page == ~Truthy(biz_name)
       IN  IF needs_first_page /\ sidx >= Len(page_lines)
           THEN /\ main_pc' = "raised"
                /\ UNCHANGED <<used_names, si, written>>
           ELSE LET title == TitleOf(code, biz_name,
                                 IF needs_first_page THEN page_lines[sidx + 1] ELSE <<>>, si)
                    base_name == BaseNameOf(code, biz_name, title, si)
                    file_name == FileNameOf(base_name, used_names)
                IN  /\ used_names' = used_names \cup {file_name}
                    /\ written' = Append(written,
                           [ordinal |-> si, s |-> sidx, e |-> eidx,
                            code |-> code, biz_name |-> biz_name, title |-> title,
                            sections |-> find_sections(sheet_lines),
                            base_name |-> base_name, file_name |-> file_name,
                            md_parts |-> MdParts(title, find_sections(sheet_lines))])
                    /\ si' = si + 1
                    /\ main_pc' = main_pc
    /\ UNCHANGED <<n_pages, code_scan_pages, page_lines, sheet_starts, sheets, not_main>>

\* Line 411: the loop is over.
Finish ==
    /\ main_pc = "sheets"
    /\ si > Len(sheets)
    /\ main_pc' = "done"
    /\ UNCHANGED <<n_pages, code_scan_pages, page_lines, sheet_starts, sheets,
                   used_names, si, written, not_main>>

\* Inputs of main: the lines extract_lines returns for a page.
MaxPages == 3
StartLine == MkLine(SHEET_START, 0, 0, 9)
PagePool ==
    {<<>>,
     <<MkLine(JIMU_JIGYOU_CODE \o <<":", "A">>, 0, 10, 9)>>,
     <<StartLine,
       MkLine(<<"P", "X", "B", "1", SP, "<x>", "<ji>", "<gyou>", "_", "2", SP, "<yuu>">>,
              0, 10, 12)>>,
     <<StartLine>>,
     <<MkLine(<<"<x>", "<ji>", "<gyou>">>, 0, 0, 3),
       MkLine(OVERVIEW, 0, 10, 5),
       MkLine(<<"A", "B">>, 0, 20, 2)>>,
     <<StartLine,
       MkLine(JIMU_JIGYOU_CODE \o <<FWCOLON, "X", "0", "0", "1">>, 0, 10, 12),
       MkLine(OVERVIEW, 0, 20, 5),
       MkLine(<<"a">>, 0, 30, 1),
       MkLine(<<"b">>, 0, 40, 1)>>,
     <<MkLine(<<"P", "l", "a", "n">>, 0, 0, 4),
       MkLine(<<"c">>, 0, 10, 1)>>,
     <<StartLine,
       MkLine(<<"P", "X", "B", "1", SP, "<x>", "<ji>", "<gyou>", SP, "<yuu>">>, 0, 10, 10)>>}
ScanPages == {0, 1, 2}

InitMain ==
    /\ n_pages \in 0..MaxPages
    /\ code_scan_pages \in ScanPages
    /\ page_lines = <<>>
    /\ sheet_starts = <<>>
    /\ sheets = <<>>
    /\ used_names = {}
    /\ si = 0
    /\ written = <<>>
    /\ main_pc = "read"

NextMain == (\E ls \in PagePool : ReadPage(ls)) \/ CutSheets \/ WriteSheet \/ Finish

\* Inputs of main with one long page: a first line (a labelled code, a line
\* with code and name, or none), filler lines, and a tail of lines around
\* the 40th line of the window. The tail lines: three glyphs with the domain
\* keyword, the keyword alone, the code label, 40 glyphs after trimming, 41
\* glyphs, a blank.
MaxTailLines == 2
FillerLine == MkLine(<<"a", "b">>, 0, 0, 2)
Fillers(n) == [k \in 1..n |-> FillerLine]
FillerCounts == {0, 38, 39}
LongText(n) == JIGYOU \o [k \in 1..(n - 2) |-> "a"]
HeadPool ==
    {<<>>,
     <<MkLine(JIMU_JIGYOU_CODE \o <<":", "A">>, 0, 0, 9)>>,
     <<MkLine(<<"P", "X", "B", "1", SP, "<x>", "<ji>", "<gyou>", SP, "<yuu>">>, 0, 0, 10)>>}
TailPool ==
    {MkLine(<<"<x>", "<ji>", "<gyou>">>, 0, 0, 3),
     MkLine(JIGYOU, 0, 0, 2),
     MkLine(JIGYOU_CODE, 0, 0, 5),
     MkLine(<<SP>> \o LongText(40), 0, 0, 41),
     MkLine(LongText(41), 0, 0, 41),
     MkLine(<<SP>>, 0, 0, 1)}
LongPagePool ==
    {h \o Fillers(n) \o t :
        h \in HeadPool, n \in FillerCounts, t \in SeqsUpTo(TailPool, MaxTailLines)}

InitLongPage ==
    /\ n_pages = 1
    /\ code_scan_pages \in 0..1
    /\ page_lines = <<>>
    /\ sheet_starts = <<>>
    /\ sheets = <<>>
    /\ used_names = {}
    /\ si = 0
    /\ written = <<>>
    /\ main_pc = "read"

NextLongPage ==
    (\E ls \in LongPagePool : ReadPage(ls)) \/ CutSheets \/ WriteSheet \/ Finish

\* Inputs of main for the label-proximity strategy: pages with a code label
\* that the label patterns do not resolve (the label before "/", the bare
\* label at the end of the window) and a value to its right or below it, on
\* the page of the label or on another page of the record.
SlashLabelLine == MkLine(JIGYOU_CODE \o <<"/">>, 0, 10, 6)
BareLabelLine == MkLine(JIGYOU_CODE, 0, 10, 5)
ValueRight == MkLine(<<"Z", "9">>, 20, 10, 2)
ValueBelow == MkLine(<<"Y", "8", SP, "<x>">>, 0, 20, 4)
LabelPagePool ==
    {<<StartLine>>,
     <<StartLine, SlashLabelLine>>,
     <<StartLine, SlashLabelLine, ValueRight>>,
     <<StartLine, SlashLabelLine, ValueBelow>>,
     <<StartLine, ValueRight>>,
     <<ValueRight>>,
     <<ValueBelow>>,
     <<BareLabelLine>>}

InitLabelPages ==
    /\ n_pages \in 0..MaxPages
    /\ code_scan_pages \in 1..2
    /\ page_lines = <<>>
    /\ sheet_starts = <<>>
    /\ sheets = <<>>
    /\ used_names = {}
    /\ si = 0
    /\ written = <<>>
    /\ main_pc = "read"

NextLabelPages ==
    (\E ls \in LabelPagePool : ReadPage(ls)) \/ CutSheets \/ WriteSheet \/ Finish

----------------------------------------------------------------------------
(* 03_import.py: import_program and the directory branch of main().        *)
(* A program object carries code, name, one plan action item, at most one  *)
(* results_do entry (whose achievement level is ach) and one search chunk; *)
(* the files carry no header (meta, enums, fiscal_years).                  *)

\* Outcome of a call that raised an exception
Raised == "<raised>"

\* program_exists(conn, code)
program_exists(prog, code) == \E k \in 1..Len(prog) : prog[k].code = code

\* ensure_org / ensure_fiscal_year / ensure_lookup_row: insert the row
\* unless it is there
EnsureLookup(db, table, key) ==
    [db EXCEPT !.lookup_rows = @ \cup {[table |-> table, key |-> key]}]

\* insert_program_core: the organization row, then the program row; the
\* returned id is that of the new last row.
insert_program_core(db, p) ==
    LET withOrg == EnsureLookup(db, "organization", "unknown department")
    IN  [withOrg EXCEPT !.program =
            Append(@, [id |-> Len(@) + 1, code |-> p.code, name |-> p.name])]

\* insert_plan: one planned_action row per action item
insert_plan(db, program_id, p) ==
    [db EXCEPT !.child_rows =
        @ \cup {[table |-> "planned_action", program_id |-> program_id, text |-> p.name]}]

\* int(ach_code) succeeds
IsIntText(a) == a \in {"1", "2", "3"}

\* insert_results_do: the fiscal year row first; int() of the achievement
\* level may raise ValueError; then the achievement level row and the
\* program_result row. Returns the database and whether it raised.
insert_results_do(db, program_id, p) ==
    IF p.ach = None THEN [db |-> db, raised |-> FALSE]
    ELSE LET withYear == EnsureLookup(db, "fiscal_year", "R6")
         IN  IF ~IsIntText(p.ach) THEN [db |-> withYear, raised |-> TRUE]
             ELSE [db |-> [EnsureLookup(withYear, "achievement_level", p.ach)
                              EXCEPT !.child_rows =
                                  @ \cup {[table |-> "program_result",
                                           program_id |-> program_id, text |-> p.ach]}],
                   raised |-> FALSE]

\* insert_search_chunks: one text_chunk row per chunk
insert_search_chunks(db, program_id, program_code, p) ==
    [db EXCEPT !.child_rows =
        @ \cup {[table |-> "text_chunk", program_id |-> program_id, text |-> program_code]}]

\* Variant of import_program below without the check for an existing code.
ImportWithoutExistsCheck(db, p) ==
    IF p.code = "" THEN [db |-> db, ret |-> Raised]
    ELSE LET core == insert_program_core(db, p)
             program_id == Len(core.program)
             res == insert_results_do(insert_plan(core, program_id, p), program_id, p)
         IN  IF res.raised THEN [db |-> res.db, ret |-> Raised]
             ELSE [db |-> insert_search_chunks(res.db, program_id, p.code, p),
                   ret |-> p.code]

\* import_program(conn, p): the database after the call and the value
\* returned (Raised when the call raised). Nothing is rolled back when an
\* insert raises: the rows inserted before it stay in the transaction.
import_program(db, p) ==
    IF p.code = "" THEN [db |-> db, ret |-> Raised]
    ELSE IF program_exists(db.program, p.code) THEN [db |-> db, ret |-> None]
    ELSE LET core == insert_program_core(db, p)
             program_id == Len(core.program)
             res == insert_results_do(insert_plan(core, program_id, p), program_id, p)
         IN  IF res.raised THEN [db |-> res.db, ret |-> Raised]
             ELSE [db |-> insert_search_chunks(res.db, program_id, p.code, p),
                   ret |-> p.code]

\* Code points order the glyphs of file names: . 0-9 A-Z _ a-z
CodePointOrder == <<".">> \o DigitSeq \o UpperSeq \o <<"_">> \o LowerSeq
CodePoint(g) == CHOOSE k \in 1..Len(CodePointOrder) : CodePointOrder[k] = g

\* a < b for str
RECURSIVE StrLess(_, _)
StrLess(a, b) ==
    IF b = <<>> THEN FALSE
    ELSE IF a = <<>> THEN TRUE
    ELSE IF Head(a) = Head(b) THEN StrLess(Tail(a), Tail(b))
    ELSE CodePoint(Head(a)) < CodePoint(Head(b))

\* n.lower().endswith('.json')
DotJson == <<".", "j", "s", "o", "n">>
IsJsonName(n) ==
    Len(n) >= Len(DotJson) /\ SubSeq(ToLower(n), Len(n) - Len(DotJson) + 1, Len(n)) = DotJson

\* iter_json_files(root): the .json names of the listing, sorted
iter_json_files(names) == StableSort(SelectSeq(names, IsJsonName), StrLess)

\* Bounds of the importer's inputs: programs per file, runs of main()
MaxProgs == 2
MaxRuns == 2

\* Content of a file that load_programs_variant cannot load (SystemExit)
Unreadable == [ok |-> FALSE, programs |-> <<>>]

\* The program objects of the input files: two payloads of code P1 (the
\* second with an achievement level that is no integer), one of code P2
\* without results, one without a code.
ProgramPool ==
    { [code |-> "P1", name |-> "n1", ach |-> "1"],
      [code |-> "P1", name |-> "n2", ach |-> "x"],
      [code |-> "P2", name |-> "n1", ach |-> None],
      [code |-> "",   name |-> "n1", ach |-> None] }

FileContents ==
    {Unreadable} \cup
    { [ok |-> TRUE, programs |-> ps] : ps \in UNION { [1..n -> ProgramPool] : n \in 0..MaxProgs } }

\* Names of the directory entries; the last one is no .json file
NameUpper == <<"B", ".", "j", "s", "o", "n">>
NameLower == <<"a", ".", "J", "S", "O", "N">>
NameOther == <<"b", ".", "t", "x", "t">>

\* os.listdir(root): the entries in some order, the two .json files with
\* any content
Listings ==
    { <<NameUpper, NameLower, NameOther>>, <<NameLower, NameOther, NameUpper>>,
      <<NameOther, NameLower, NameUpper>> }

Directories ==
    { [k \in 1..3 |-> [name |-> l[k],
                       content |-> IF l[k] = NameUpper THEN cu
                                   ELSE IF l[k] = NameLower THEN cl ELSE Unreadable]] :
        l \in Listings, cu \in FileContents, cl \in FileContents }

NamesOf(dir) == [k \in 1..Len(dir) |-> dir[k].name]
EntryOf(dir, n) == dir[CHOOSE k \in 1..Len(dir) : dir[k].name = n]

\* The database of the connection
Db == [program |-> program, child_rows |-> child_rows, lookup_rows |-> lookup_rows]

InitImport ==
    /\ dir_files \in Directories
    /\ program = <<>>
    /\ child_rows = {}
    /\ lookup_rows = {}
    /\ run_files = <<>>
    /\ cur_programs = <<>>
    /\ file_skipped = 0
    /\ failed_files = {}
    /\ imported_codes = <<>>
    /\ skipped = 0
    /\ runs = 0
    /\ import_log = <<>>
    /\ imp_pc = "idle"

\* main() on a directory: the counters start empty, the files are listed
StartRun ==
    /\ imp_pc = "idle"
    /\ runs < MaxRuns
    /\ run_files' = iter_json_files(NamesOf(dir_files))
    /\ cur_programs' = <<>>
    /\ file_skipped' = 0
    /\ failed_files' = {}
    /\ imported_codes' = <<>>
    /\ skipped' = 0
    /\ imp_pc' = "files"
    /\ UNCHANGED <<dir_files, program, child_rows, lookup_rows, runs, import_log>>
    /\ UNCHANGED not_imp

\* for f in iter_json_files(json_path): load_programs_variant(f); a file
\* that cannot be loaded fails as a whole
LoadFile ==
    /\ imp_pc = "files"
    /\ run_files # <<>>
    /\ LET content == EntryOf(dir_files, Head(run_files)).content
       IN  IF ~content.ok
           THEN /\ failed_files' = failed_files \cup {Head(run_files)}
                /\ run_files' = Tail(run_files)
                /\ UNCHANGED <<cur_programs, file_skipped, imp_pc>>
           ELSE /\ cur_programs' = content.programs
                /\ file_skipped' = 0
                /\ imp_pc' = "programs"
                /\ UNCHANGED <<run_files, failed_files>>
    /\ UNCHANGED <<dir_files, program, child_rows, lookup_rows, imported_codes,
                   skipped, runs, import_log>>
    /\ UNCHANGED not_imp

\* for p in programs: import_program(conn, p); an exception counts as a skip
ImportProgram ==
    /\ imp_pc = "programs"
    /\ cur_programs # <<>>
    /\ LET p == Head(cur_programs)
           out == import_program(Db, p)
       IN  /\ program' = out.db.program
           /\ child_rows' = out.db.child_rows
           /\ lookup_rows' = out.db.lookup_rows
           /\ import_log' = Append(import_log, [code |-> p.code, name |-> p.name, ret |-> out.ret])
           /\ IF out.ret \in {None, Raised}
              THEN /\ skipped' = skipped + 1
                   /\ file_skipped' = file_skipped + 1
                   /\ UNCHANGED imported_codes
              ELSE /\ imported_codes' = Append(imported_codes, out.ret)
                   /\ UNCHANGED <<skipped, file_skipped>>
    /\ cur_programs' = Tail(cur_programs)
    /\ UNCHANGED <<dir_files, run_files, failed_files, runs, imp_pc>>
    /\ UNCHANGED not_imp

\* if file_skipped > 0: failed_files.add(f); then the next file
CloseFile ==
    /\ imp_pc = "programs"
    /\ cur_programs = <<>>
    /\ failed_files' = IF file_skipped > 0 THEN failed_files \cup {Head(run_files)}
                       ELSE failed_files
    /\ run_files' = Tail(run_files)
    /\ imp_pc' = "files"
    /\ UNCHANGED <<dir_files, program, child_rows, lookup_rows, cur_programs,
                   file_skipped, imported_codes, skipped, runs, import_log>>
    /\ UNCHANGED not_imp

\* The transaction commits; the failed files move to the failed directory,
\* unless shutil.move raises (the exception is logged and the file stays)
EndRun ==
    /\ imp_pc = "files"
    /\ run_files = <<>>
    /\ \E moved \in {failed_files, {}} :
           dir_files' = SelectSeq(dir_files, LAMBDA e : e.name \notin moved)
    /\ runs' = runs + 1
    /\ imp_pc' = "idle"
    /\ UNCHANGED <<program, child_rows, lookup_rows, run_files, cur_programs,
                   file_skipped, failed_files, imported_codes, skipped, import_log>>
    /\ UNCHANGED not_imp

NextImport == StartRun \/ LoadFile \/ ImportProgram \/ CloseFile \/ EndRun

----------------------------------------------------------------------------
(* 02_md_to_json.py domain_to_dbjson and 03_import.py                      *)
(* load_programs_variant / _transform_table_dump_style.                    *)
(* A dict is a record that has a key when the dict has a value other than  *)
(* None under it (the code reads dicts with .get only); a list is a        *)
(* sequence; scalars are strings, but item orders and SDG goals, which are *)
(* integers, and SDG targets, which are texts of glyphs. Of the organization, *)
(* the classifications, the purpose texts, the legal basis, the search     *)
(* chunks and the sources, which both functions copy key by key, nothing   *)
(* is modelled.                                                            *)

NoKeys == <<>>
Entry(k, v) == [f \in {k} |-> v]

\* d.get(k) is not None
Has(d, k) == k \in DOMAIN d

\* d.get(k) is truthy, for a str value
HasText(d, k) == Has(d, k) /\ d[k] # ""

\* {to: d.get(from)}
Move(d, from, to) == IF Has(d, from) THEN Entry(to, d[from]) ELSE NoKeys
Keep(d, k) == Move(d, k, k)

\* d.get(k) or {}
SubDict(d, k) == IF Has(d, k) THEN d[k] ELSE NoKeys

\* _ensure_list(d.get(k)), the value being a list or None
_ensure_list(d, k) == IF Has(d, k) THEN d[k] ELSE <<>>

\* {k: v or None}, for a list or a dict v
OrNone(k, v) == IF v = <<>> THEN NoKeys ELSE Entry(k, v)

\* The concatenation of the lists F(xs[1]), F(xs[2]), ...
RECURSIVE Chain(_)
Chain(ls) == IF ls = <<>> THEN <<>> ELSE Head(ls) \o Chain(Tail(ls))
FlatMap(xs, F(_)) == Chain([i \in 1..Len(xs) |-> F(xs[i])])

\* int(s) of a text of decimal digits; None (no key) otherwise
RECURSIVE DigitsValue(_)
DigitsValue(s) ==
    IF s = <<>> THEN 0
    ELSE 10 * DigitsValue(SubSeq(s, 1, Len(s) - 1))
         + (CHOOSE d \in 0..9 : DigitSeq[d + 1] = s[Len(s)])

\* goal_val = int(str(tgt).split(".")[0]), as the entry {"goal": goal_val}
GoalEntry(tgt) ==
    LET head == SubSeq(tgt, 1, RunLenNot(tgt, 1, {"."}))
    IN  IF head # <<>> /\ Range(head) \subseteq Range(DigitSeq)
        THEN Entry("goal", DigitsValue(head)) ELSE NoKeys

\* program_impl_mode
ImplModeRows(p) ==
    LET ms == SelectSeq(_ensure_list(SubDict(p, "implementation"), "modes"),
                        LAMBDA m : m # "")
    IN  [i \in 1..Len(ms) |-> [program_code |-> p.code, impl_mode_code |-> ms[i]]]

\* program_linked_plan
LinkedPlanRows(p) ==
    LET lps == SelectSeq(_ensure_list(SubDict(p, "policy_links"), "linked_plans"),
                         LAMBDA lp : lp # "")
    IN  [i \in 1..Len(lps) |-> [program_code |-> p.code, plan_name |-> lps[i]]]

\* program_sdg: the targets, then the bare goals
ProgramSdgRows(p) ==
    LET sdgs == SubDict(SubDict(p, "policy_links"), "sdgs")
        tgts == SelectSeq(_ensure_list(sdgs, "targets"), LAMBDA t : t # <<>>)
        goals == _ensure_list(sdgs, "goals")
    IN  [i \in 1..Len(tgts) |->
            Entry("program_code", p.code) @@ GoalEntry(tgts[i]) @@ Entry("target", tgts[i])]
        \o [i \in 1..Len(goals) |-> [program_code |-> p.code, goal |-> goals[i]]]

\* program_fiscal
FiscalRows(p) ==
    LET fin == _ensure_list(p, "finance")
    IN  [i \in 1..Len(fin) |->
            Entry("program_code", p.code) @@ Keep(fin[i], "fiscal_year_label")
            @@ Move(fin[i], "a_budget", "budget_amount_a")
            @@ Move(fin[i], "a_settlement", "settlement_amount_a")
            @@ Move(fin[i], "a_planned", "planned_project_cost_a")
            @@ Move(fin[i], "b_human_budget", "human_cost_b_budget")
            @@ Move(fin[i], "b_human_settlement", "human_cost_b_settlement")
            @@ Move(fin[i], "total_budget", "total_cost_budget")
            @@ Move(fin[i], "total_settlement", "total_cost_settlement")
            @@ Keep(fin[i], "manpower_person_year")]

\* program_fiscal_funding
FundingSourceCodes ==
    <<"national_subsidy", "municipal_bond", "other_special_fund", "general_fund">>
FundingRowsOf(code, f) ==
    LET fb == SubDict(f, "funding_breakdown")
        srcs == SelectSeq(FundingSourceCodes, LAMBDA c : Has(fb, c))
    IN  [i \in 1..Len(srcs) |->
            Entry("program_code", code) @@ Keep(f, "fiscal_year_label")
            @@ Entry("funding_source_code", srcs[i])
            @@ Move(fb[srcs[i]], "budget", "budget_amount")
            @@ Move(fb[srcs[i]], "settlement", "settlement_amount")]
FundingRows(p) ==
    FlatMap(_ensure_list(p, "finance"), LAMBDA f : FundingRowsOf(p.code, f))

\* planned_action
PlannedActionRows(p) ==
    LET plan == SubDict(p, "plan")
        items == _ensure_list(plan, "action_items")
    IN  [i \in 1..Len(items) |->
            Entry("program_code", p.code)
            @@ Move(plan, "applicable_year_label", "fiscal_year_label")
            @@ Move(items[i], "order", "item_order") @@ Keep(items[i], "text")]

\* plan_change_note
PlanChangeRows(p) ==
    LET plan == SubDict(p, "plan")
        ch == SubDict(plan, "change_from_initial_plan")
    IN  IF HasText(ch, "change_points") \/ HasText(ch, "change_reason")
        THEN << Entry("program_code", p.code)
                @@ Move(plan, "applicable_year_label", "fiscal_year_label")
                @@ Move(ch, "change_points", "change_points_text")
                @@ Move(ch, "change_reason", "change_reason_text") >>
        ELSE <<>>

\* program_result
ResultRows(p) ==
    LET rs == _ensure_list(p, "results_do")
    IN  [i \in 1..Len(rs) |->
            Entry("program_code", p.code) @@ Keep(rs[i], "fiscal_year_label")
            @@ Move(rs[i], "achievement_level", "achievement_level_code")
            @@ Keep(rs[i], "result_text")]

\* indicator, before the rows of a (program_code, name) seen earlier are
\* left out: one row for each indicator that has a name
IndicatorRowsOf(p) ==
    LET inds == _ensure_list(p, "indicators")
        named == SelectSeq([i \in 1..Len(inds) |-> i], LAMBDA i : HasText(inds[i], "name"))
    IN  [k \in 1..Len(named) |->
            [program_code |-> p.code, name |-> inds[named[k]].name, sort_order |-> named[k]]
            @@ Keep(inds[named[k]], "description") @@ Keep(inds[named[k]], "unit")
            @@ Move(inds[named[k]], "type", "indicator_type_code")]

\* key not in seen["indicator_key"]
FirstOfKey(rows) ==
    SelectSeq([i \in 1..Len(rows) |-> i],
              LAMBDA i : \A j \in 1..(i - 1) :
                  <<rows[j].program_code, rows[j].name>> # <<rows[i].program_code, rows[i].name>>)
IndicatorRows(ps) ==
    LET rows == FlatMap(ps, IndicatorRowsOf)
        kept == FirstOfKey(rows)
    IN  [k \in 1..Len(kept) |-> rows[kept[k]]]

\* indicator_value
IndicatorValueRowsOf(code, ind) ==
    LET vals == _ensure_list(ind, "values")
    IN  IF ~HasText(ind, "name") THEN <<>>
        ELSE [i \in 1..Len(vals) |->
                 [program_code |-> code, indicator_name |-> ind.name]
                 @@ Keep(vals[i], "fiscal_year_label")
                 @@ Move(vals[i], "target", "target_value")
                 @@ Move(vals[i], "actual", "actual_value")]
IndicatorValueRows(p) ==
    FlatMap(_ensure_list(p, "indicators"), LAMBDA ind : IndicatorValueRowsOf(p.code, ind))

\* program_evaluation, evaluation_score, program_contribution
EvaluationRows(p) ==
    LET ev == SubDict(p, "evaluation_check")
    IN  IF ev = NoKeys THEN <<>>
        ELSE << Entry("program_code", p.code) @@ Keep(ev, "fiscal_year_label")
                @@ Keep(ev, "environment_change")
                @@ Move(ev, "improvements_history_text", "improvement_history") >>
EvaluationScoreRows(p) ==
    LET ev == SubDict(p, "evaluation_check")
        scores == _ensure_list(ev, "scores")
    IN  [i \in 1..Len(scores) |->
            Entry("program_code", p.code) @@ Keep(ev, "fiscal_year_label")
            @@ Move(scores[i], "category_code", "eval_category_code")
            @@ Move(scores[i], "rating", "rating_letter")
            @@ Keep(scores[i], "reason")]
ContributionRows(p) ==
    LET ev == SubDict(p, "evaluation_check")
        contrib == SubDict(ev, "contribution")
    IN  IF contrib = NoKeys THEN <<>>
        ELSE << Entry("program_code", p.code) @@ Keep(ev, "fiscal_year_label")
                @@ Move(contrib, "level", "level_letter") @@ Keep(contrib, "reason") >>

\* program_action, next_year_action_item
ActionRows(p) ==
    LET act == SubDict(p, "action_improvement")
    IN  IF act = NoKeys THEN <<>>
        ELSE << Entry("program_code", p.code) @@ Keep(act, "fiscal_year_label")
                @@ Keep(act, "direction_code") @@ Keep(act, "direction_text") >>
NextYearRows(p) ==
    LET act == SubDict(p, "action_improvement")
        items == _ensure_list(act, "next_year_action_items")
    IN  [i \in 1..Len(items) |->
            Entry("program_code", p.code) @@ Keep(act, "fiscal_year_label")
            @@ Move(items[i], "order", "item_order") @@ Keep(items[i], "text")]

\* program
ProgramRow(p) ==
    << Entry("code", p.code) @@ Keep(p, "name")
       @@ Move(SubDict(SubDict(p, "policy_links"), "sdgs"), "orientation_text",
               "sdgs_orientation") >>

\* domain_to_dbjson(doc): the entries without a code are skipped
domain_to_dbjson(programs) ==
    LET ps == SelectSeq(programs, LAMBDA p : HasText(p, "code"))
    IN  [program |-> FlatMap(ps, ProgramRow),
         program_impl_mode |-> FlatMap(ps, ImplModeRows),
         program_linked_plan |-> FlatMap(ps, LinkedPlanRows),
         program_sdg |-> FlatMap(ps, ProgramSdgRows),
         program_fiscal |-> FlatMap(ps, FiscalRows),
         program_fiscal_funding |-> FlatMap(ps, FundingRows),
         planned_action |-> FlatMap(ps, PlannedActionRows),
         plan_change_note |-> FlatMap(ps, PlanChangeRows),
         program_result |-> FlatMap(ps, ResultRows),
         indicator |-> IndicatorRows(ps),
         indicator_value |-> FlatMap(ps, IndicatorValueRows),
         program_evaluation |-> FlatMap(ps, EvaluationRows),
         evaluation_score |-> FlatMap(ps, EvaluationScoreRows),
         program_contribution |-> FlatMap(ps, ContributionRows),
         program_action |-> FlatMap(ps, ActionRows),
         next_year_action_item |-> FlatMap(ps, NextYearRows)]

\* idx_list(key).get(code, []): the rows of the table for the program
RowsOf(data, key, code) ==
    SelectSeq(_ensure_list(data, key),
              LAMBDA r : HasText(r, "program_code") /\ r.program_code = code)

\* [r.get(k) for r in rows if r.get(k)]
TruthyColumn(rows, k) ==
    LET kept == SelectSeq(rows, LAMBDA r : HasText(r, k))
    IN  [i \in 1..Len(kept) |-> kept[i][k]]

\* funding_breakdown of the finance entry of fiscal year fy: the rows of
\* that year by source code, a later row replacing an earlier one
FundingBreakdown(funds, fy) ==
    LET rows == SelectSeq(funds, LAMBDA r :
                    /\ Has(r, "fiscal_year_label") /\ r.fiscal_year_label = fy
                    /\ HasText(r, "funding_source_code"))
        last(src) == rows[Max({i \in 1..Len(rows) : rows[i].funding_source_code = src})]
    IN  [src \in {rows[i].funding_source_code : i \in 1..Len(rows)} |->
            Move(last(src), "budget_amount", "budget")
            @@ Move(last(src), "settlement_amount", "settlement")]

\* finance_list
FinanceList(data, code) ==
    LET fs == SelectSeq(RowsOf(data, "program_fiscal", code),
                        LAMBDA f : HasText(f, "fiscal_year_label"))
    IN  [i \in 1..Len(fs) |->
            Keep(fs[i], "fiscal_year_label")
            @@ Move(fs[i], "budget_amount_a", "a_budget")
            @@ Move(fs[i], "settlement_amount_a", "a_settlement")
            @@ Move(fs[i], "planned_project_cost_a", "a_planned")
            @@ Move(fs[i], "human_cost_b_budget", "b_human_budget")
            @@ Move(fs[i], "human_cost_b_settlement", "b_human_settlement")
            @@ Move(fs[i], "total_cost_budget", "total_budget")
            @@ Move(fs[i], "total_cost_settlement", "total_settlement")
            @@ Keep(fs[i], "manpower_person_year")
            @@ OrNone("funding_breakdown",
                      FundingBreakdown(RowsOf(data, "program_fiscal_funding", code),
                                       fs[i].fiscal_year_label))]

\* [{"order": it.get("item_order"), "text": it.get("text")} for it in items]
OrderedItems(items) ==
    [i \in 1..Len(items) |-> Move(items[i], "item_order", "order") @@ Keep(items[i], "text")]

\* plan_block: the planned actions sorted by (item_order or 0)
ItemOrder(r) == IF Has(r, "item_order") THEN r.item_order ELSE 0
PlanBlock(data, code) ==
    LET plan_items == StableSort(RowsOf(data, "planned_action", code),
                                 LAMBDA a, b : ItemOrder(a) < ItemOrder(b))
    IN  IF plan_items = <<>> THEN NoKeys
        ELSE Entry("plan",
                 Move(plan_items[1], "fiscal_year_label", "applicable_year_label")
                 @@ Entry("action_items", OrderedItems(plan_items)))

\* results_do
ResultsDo(data, code) ==
    LET rs == RowsOf(data, "program_result", code)
    IN  [i \in 1..Len(rs) |->
            Keep(rs[i], "fiscal_year_label")
            @@ Move(rs[i], "achievement_level_code", "achievement_level")
            @@ Keep(rs[i], "result_text")]

\* indicators
IndicatorValues(data, code, ind) ==
    LET vals == SelectSeq(RowsOf(data, "indicator_value", code),
                          LAMBDA v : Move(v, "indicator_name", "name") = Keep(ind, "name"))
    IN  [i \in 1..Len(vals) |->
            Keep(vals[i], "fiscal_year_label")
            @@ Move(vals[i], "target_value", "target")
            @@ Move(vals[i], "actual_value", "actual")]
Indicators(data, code) ==
    LET inds == RowsOf(data, "indicator", code)
    IN  [i \in 1..Len(inds) |->
            Move(inds[i], "indicator_type_code", "type") @@ Keep(inds[i], "name")
            @@ Keep(inds[i], "description") @@ Keep(inds[i], "unit")
            @@ OrNone("values", IndicatorValues(data, code, inds[i]))]

\* evaluation_check
EvaluationCheck(data, code) ==
    LET ev_rows == RowsOf(data, "program_evaluation", code)
        scs == RowsOf(data, "evaluation_score", code)
        scores == [i \in 1..Len(scs) |->
                      Move(scs[i], "eval_category_code", "category_code")
                      @@ Move(scs[i], "rating_letter", "rating") @@ Keep(scs[i], "reason")]
        contrib_rows == RowsOf(data, "program_contribution", code)
    IN  IF ev_rows = <<>> THEN NoKeys
        ELSE Entry("evaluation_check",
                 Keep(ev_rows[1], "fiscal_year_label")
                 @@ Keep(ev_rows[1], "environment_change")
                 @@ Move(ev_rows[1], "improvement_history", "improvements_history_text")
                 @@ OrNone("scores", scores)
                 @@ (IF contrib_rows = <<>> THEN NoKeys
                     ELSE Entry("contribution",
                              Move(contrib_rows[1], "level_letter", "level")
                              @@ Keep(contrib_rows[1], "reason"))))

\* action_improvement
ActionImprovement(data, code) ==
    LET act_rows == RowsOf(data, "program_action", code)
    IN  IF act_rows = <<>> THEN NoKeys
        ELSE Entry("action_improvement",
                 Keep(act_rows[1], "fiscal_year_label")
                 @@ Keep(act_rows[1], "direction_code")
                 @@ Keep(act_rows[1], "direction_text")
                 @@ OrNone("next_year_action_items",
                           OrderedItems(RowsOf(data, "next_year_action_item", code))))

\* plan_change_note: the keys read are change_points and change_reason
PlanChangeNote(data, code) ==
    LET pc_rows == RowsOf(data, "plan_change_note", code)
    IN  IF pc_rows = <<>> THEN NoKeys
        ELSE Entry("plan_change_note",
                 Keep(pc_rows[1], "fiscal_year_label")
                 @@ Keep(pc_rows[1], "change_points")
                 @@ Keep(pc_rows[1], "change_reason"))

\* program_obj for a row of the program table; the table program_sdg is
\* not read
ProgramObj(data, row) ==
    LET code == row.code
    IN  Entry("code", code) @@ Keep(row, "name")
        @@ Entry("implementation",
                 OrNone("modes", TruthyColumn(RowsOf(data, "program_impl_mode", code),
                                              "impl_mode_code")))
        @@ Entry("policy_links",
                 OrNone("linked_plans",
                        TruthyColumn(RowsOf(data, "program_linked_plan", code), "plan_name"))
                 @@ (IF HasText(row, "sdgs_orientation")
                     THEN Entry("sdgs", [orientation_text |-> row.sdgs_orientation])
                     ELSE NoKeys))
        @@ OrNone("finance", FinanceList(data, code))
        @@ PlanBlock(data, code)
        @@ OrNone("results_do", ResultsDo(data, code))
        @@ OrNone("indicators", Indicators(data, code))
        @@ EvaluationCheck(data, code)
        @@ ActionImprovement(data, code)
        @@ PlanChangeNote(data, code)

\* _transform_table_dump_style(data): the programs
_transform_table_dump_style(data) ==
    LET programs_src == SelectSeq(_ensure_list(data, "program"), LAMBDA r : HasText(r, "code"))
    IN  [i \in 1..Len(programs_src) |-> ProgramObj(data, programs_src[i])]

\* load_programs_variant(path): the programs; a root object with a programs
\* list is taken as it is, one with a program list is transformed
load_programs_variant(data) ==
    IF Has(data, "programs") THEN data.programs
    ELSE _transform_table_dump_style(data)

\* Inputs of the converter: the blocks of a domain program, each absent or
\* filled in
ImplementationBlocks ==
    {NoKeys, Entry("implementation", [modes |-> <<"direct", "outsourced">>])}
SdgsBlock ==
    [orientation_text |-> "o", targets |-> << <<"1", "1", ".", "7">>, <<"x">> >>,
     goals |-> <<3>>]
PolicyBlocks ==
    {NoKeys,
     Entry("policy_links", [linked_plans |-> <<"planA", "planB">>]),
     Entry("policy_links", [sdgs |-> SdgsBlock]),
     Entry("policy_links", [linked_plans |-> <<"planA">>,
                            sdgs |-> [targets |-> << <<"3", ".", "1">> >>]])}
FinanceBlocks ==
    {NoKeys,
     Entry("finance", << [fiscal_year_label |-> "R6", a_budget |-> "100",
                          a_settlement |-> "90"] >>),
     Entry("finance", << [fiscal_year_label |-> "R5", total_budget |-> "70"],
                         [fiscal_year_label |-> "R6", a_budget |-> "100",
                          funding_breakdown |->
                              [general_fund |-> [budget |-> "60", settlement |-> "50"],
                               national_subsidy |-> [budget |-> "40"]]] >>)}
PlanItems == << [order |-> 1, text |-> "t1"], [order |-> 2, text |-> "t2"] >>
PlanBlocks ==
    {NoKeys,
     Entry("plan", [applicable_year_label |-> "R6", action_items |-> PlanItems]),
     Entry("plan", [applicable_year_label |-> "R6", action_items |-> PlanItems,
                    change_from_initial_plan |->
                        [change_points |-> "cp", change_reason |-> "cr"]])}
ResultBlocks ==
    {NoKeys,
     Entry("results_do", << [fiscal_year_label |-> "R6", achievement_level |-> "1",
                             result_text |-> "r"] >>)}
IndicatorBlocks ==
    {NoKeys,
     Entry("indicators",
           << [name |-> "i1", type |-> "output", unit |-> "u",
               values |-> << [fiscal_year_label |-> "R6", target |-> "10",
                              actual |-> "9"] >>],
              [name |-> "i2", description |-> "d"] >>)}
EvaluationBlocks ==
    {NoKeys,
     Entry("evaluation_check",
           [fiscal_year_label |-> "R6",
            scores |-> << [category_code |-> "need", rating |-> "A", reason |-> "s"] >>,
            contribution |-> [level |-> "A", reason |-> "c"]])}
ActionBlocks ==
    {NoKeys,
     Entry("action_improvement",
           [fiscal_year_label |-> "R6", direction_code |-> "keep",
            next_year_action_items |-> << [order |-> 1, text |-> "n1"] >>])}

\* The domain programs of a code
ProgramsOfCode(code) ==
    { [code |-> code, name |-> "n"] @@ i @@ pl @@ f @@ pn @@ r @@ ind @@ ev @@ act :
        i \in ImplementationBlocks, pl \in PolicyBlocks, f \in FinanceBlocks,
        pn \in PlanBlocks, r \in ResultBlocks, ind \in IndicatorBlocks,
        ev \in EvaluationBlocks, act \in ActionBlocks }

\* A second entry of the document: one without a code, one with all blocks
SecondPrograms ==
    { [name |-> "m"],
      [code |-> "P2", name |-> "m"]
      @@ Entry("policy_links", [sdgs |-> SdgsBlock])
      @@ Entry("plan", [applicable_year_label |-> "R5", action_items |-> PlanItems,
                        change_from_initial_plan |-> [change_reason |-> "cr2"]])
      @@ Entry("indicators", << [name |-> "i1", values |->
                                    << [fiscal_year_label |-> "R5", actual |-> "1"] >>] >>) }

Documents ==
    { <<p>> : p \in ProgramsOfCode("P1") }
    \cup { <<p, q>> : p \in ProgramsOfCode("P1"), q \in SecondPrograms }

InitConvert ==
    /\ doc_programs \in Documents
    /\ tables = <<>>
    /\ loaded_programs = <<>>
    /\ conv_pc = "domain"

\* 02_md_to_json.py writes domain_to_dbjson(doc) as the DB-ingest JSON
ConvertDocument ==
    /\ conv_pc = "domain"
    /\ tables' = domain_to_dbjson(doc_programs)
    /\ conv_pc' = "tables"
    /\ UNCHANGED <<doc_programs, loaded_programs>>
    /\ UNCHANGED not_conv

\* 03_import.py reads it with load_programs_variant
LoadPrograms ==
    /\ conv_pc = "tables"
    /\ loaded_programs' = load_programs_variant(tables)
    /\ conv_pc' = "loaded"
    /\ UNCHANGED <<doc_programs, tables>>
    /\ UNCHANGED not_conv

NextConvert == ConvertDocument \/ LoadPrograms

----------------------------------------------------------------------------
(* The specifications: each applies one function of the program to inputs  *)
(* drawn from its pool, the other functions being switched off.            *)

LinesOff ==
    /\ page_chars = <<>>
    /\ line_tol = 0
    /\ gap_tol = 0
    /\ chars = <<>>
    /\ ci = 1
    /\ cur = <<>>
    /\ last_top = None
    /\ lines = <<>>
    /\ el_pc = "off"

IdentOff ==
    /\ id_lines = <<>>
    /\ code_only = NoneText
    /\ id_result = [code |-> NoneText, name |-> NoneText]
    /\ id_pc = "off"

SectionsOff ==
    /\ all_lines = <<>>
    /\ sections = <<>>
    /\ fs_pc = "off"

MainOff ==
    /\ n_pages = 0
    /\ code_scan_pages = 0
    /\ page_lines = <<>>
    /\ sheet_starts = <<>>
    /\ sheets = <<>>
    /\ used_names = {}
    /\ si = 0
    /\ written = <<>>
    /\ main_pc = "off"

ImportOff ==
    /\ dir_files = <<>>
    /\ program = <<>>
    /\ child_rows = {}
    /\ lookup_rows = {}
    /\ run_files = <<>>
    /\ cur_programs = <<>>
    /\ file_skipped = 0
    /\ failed_files = {}
    /\ imported_codes = <<>>
    /\ skipped = 0
    /\ runs = 0
    /\ import_log = <<>>
    /\ imp_pc = "off"

ConvertOff ==
    /\ doc_programs = <<>>
    /\ tables = <<>>
    /\ loaded_programs = <<>>
    /\ conv_pc = "off"

LinesStart == InitLines /\ IdentOff /\ SectionsOff /\ MainOff /\ ImportOff /\ ConvertOff
SpecLines == LinesStart /\ [][NextLines]_vars

TiesStart == InitTies /\ IdentOff /\ SectionsOff /\ MainOff /\ ImportOff /\ ConvertOff
SpecTies == TiesStart /\ [][NextLines]_vars

IdentStart == InitIdent /\ LinesOff /\ SectionsOff /\ MainOff /\ ImportOff /\ ConvertOff
SpecIdent == IdentStart /\ [][NextIdent]_vars

SectionsStart == InitSections /\ LinesOff /\ IdentOff /\ MainOff /\ ImportOff /\ ConvertOff
SpecSections == SectionsStart /\ [][NextSections]_vars

ResplitStart == InitResplit /\ LinesOff /\ IdentOff /\ MainOff /\ ImportOff /\ ConvertOff
SpecResplit == ResplitStart /\ [][NextSections]_vars

Init == InitMain /\ LinesOff /\ IdentOff /\ SectionsOff /\ ImportOff /\ ConvertOff
Next == NextMain
Spec == Init /\ [][Next]_vars

LabelPagesStart == InitLabelPages /\ LinesOff /\ IdentOff /\ SectionsOff /\ ImportOff /\ ConvertOff
SpecLabelPages == LabelPagesStart /\ [][NextLabelPages]_vars

LongPageStart == InitLongPage /\ LinesOff /\ IdentOff /\ SectionsOff /\ ImportOff /\ ConvertOff
SpecLongPage == LongPageStart /\ [][NextLongPage]_vars

ConvertStart == InitConvert /\ LinesOff /\ IdentOff /\ SectionsOff /\ MainOff /\ ImportOff
SpecConvert == ConvertStart /\ [][NextConvert]_vars

ImportStart == InitImport /\ LinesOff /\ IdentOff /\ SectionsOff /\ MainOff /\ ConvertOff
SpecImport == ImportStart /\ [][NextImport]_vars

----------------------------------------------------------------------------
(* Properties of main(), checked under Spec.                               *)

\* The ranges are built once the first loop is over.
SheetsBuilt == main_pc \in {"sheets", "done", "raised"}

\* Whether page p (0-based) has a line matching the start marker, and the
\* marker pages in ascending order.
IsMarkerPage(p) ==
    \E k \in 1..Len(page_lines[p + 1]) : Contains(page_lines[p + 1][k].text, SHEET_START)
MarkerPages ==
    SelectSeq([k \in 1..n_pages |-> k - 1], LAMBDA q : IsMarkerPage(q))

\* C1: every page 0..last_page of the document belongs to exactly one
\* record range.
C1_EveryPageInOneRange ==
    SheetsBuilt =>
        \A p \in 0..(n_pages - 1) :
            Cardinality({i \in 1..Len(sheets) : sheets[i].s <= p /\ p <= sheets[i].e}) = 1

\* C2: the range starts are the marker pages in ascending order, each range
\* ends on the page before the next start and the last one on the final
\* page; without a marker page the result is the single range [0, last_page].
C2_RangesFromMarkers ==
    SheetsBuilt =>
        IF MarkerPages = <<>>
        THEN sheets = <<[s |-> 0, e |-> n_pages - 1]>>
        ELSE /\ Len(sheets) = Len(MarkerPages)
             /\ \A i \in 1..Len(sheets) :
                 /\ sheets[i].s = MarkerPages[i]
                 /\ sheets[i].e = (IF i < Len(sheets) THEN MarkerPages[i + 1] - 1
                                   ELSE n_pages - 1)
             /\ \A i, j \in 1..Len(sheets) :
                 i < j => sheets[i].s <= sheets[i].e /\ sheets[i].e < sheets[j].s

\* Reached: three pages, markers on the first and the last, the page between
\* them without any line, and the sheets built.
C2_Witness ==
    /\ main_pc = "done"
    /\ n_pages = 3
    /\ MarkerPages = <<0, 2>>
    /\ page_lines[2] = <<>>
    /\ Len(sheets) = 2

\* C3: the file names written in one run are pairwise distinct.
C3_DistinctFileNames ==
    \A i, j \in 1..Len(written) :
        i # j => written[i].file_name # written[j].file_name

\* Reached: three sheets written, the first and third with the same base
\* name and the second with that base name followed by _2.
C3_Witness ==
    /\ main_pc = "done"
    /\ Len(written) = 3
    /\ written[1].base_name = written[3].base_name
    /\ written[2].base_name = written[1].base_name \o <<"_", "2">>
    /\ written[3].file_name = Suffixed(written[1].base_name, 3)

\* The section keys, in display order, and the position of a key in it.
DisplayKeys == HeaderKeys \o <<"document">>
DisplayRank(key) == CHOOSE r \in 1..Len(DisplayKeys) : DisplayKeys[r] = key

\* The positions of the heading pieces in the pieces of written record w,
\* and the key whose heading is at position p.
HeadingPositions(w) ==
    {p \in 2..Len(w.md_parts) :
        \E key \in Range(DisplayKeys) : w.md_parts[p] = HeadingPart(SectionNames(key))}
HeadingKeyAt(w, p) ==
    CHOOSE key \in Range(DisplayKeys) : w.md_parts[p] = HeadingPart(SectionNames(key))
NonEmptyKeys(w) ==
    {w.sections[k].key : k \in {j \in 1..Len(w.sections) : w.sections[j].lines # <<>>}}

\* C13: in every written file the headings of the non-empty sections appear
\* in the order overview, plan, do, check, action, then document, whatever
\* the order of the headers in the record, each heading once, and each is
\* followed by the lines of its section, in order and unchanged, and by one
\* blank line.
C13_CanonicalSectionOrder ==
    \A i \in 1..Len(written) :
        LET w == written[i]
            hs == HeadingPositions(w)
        IN  /\ w.md_parts[1] = TitlePart(w.title)
            /\ \A p, q \in hs :
                   p < q => DisplayRank(HeadingKeyAt(w, p)) < DisplayRank(HeadingKeyAt(w, q))
            /\ {HeadingKeyAt(w, p) : p \in hs} =
                   (IF NonEmptyKeys(w) = {} THEN {"document"} ELSE NonEmptyKeys(w))
            /\ \A p \in hs :
                   LET body == SectionsGet(w.sections, HeadingKeyAt(w, p))
                       next == IF \E q \in hs : q > p THEN Min({q \in hs : q > p})
                               ELSE Len(w.md_parts) + 1
                   IN  /\ next = p + Len(body) + 2
                       /\ \A j \in 1..Len(body) : w.md_parts[p + j] = body[j] \o <<NL>>
                       /\ w.md_parts[next - 1] = <<NL>>
            /\ 2 \in hs

\* Reached: a file written for a record whose plan header precedes its
\* overview header, both sections non-empty, the overview heading first.
C13_Witness ==
    \E i \in 1..Len(written) :
        LET w == written[i]
        IN  /\ Len(w.sections) = 2
            /\ w.sections[1].key = "plan" /\ w.sections[1].lines # <<>>
            /\ w.sections[2].key = "overview" /\ w.sections[2].lines # <<>>
            /\ w.md_parts[2] = HeadingPart(SectionNames("overview"))

\* The stripped texts of the non-blank lines of the first page of written
\* record w, in page order.
FirstPageTexts(w) ==
    SelectSeq([k \in 1..Len(page_lines[w.s + 1]) |-> Strip(page_lines[w.s + 1][k].text)],
              LAMBDA t : t # <<>>)

\* C14: title precedence. The title of a written record is "code name" when
\* its code and name are known, else the name when a name is known, else the
\* first non-blank line of the record's first page, else the placeholder
\* made from the 1-based ordinal of the record.
C14_TitlePrecedence ==
    \A i \in 1..Len(written) :
        LET w == written[i]
        IN  /\ w.ordinal = i
            /\ w.title =
                   (IF Truthy(w.code) /\ Truthy(w.biz_name)
                        THEN w.code \o <<SP>> \o w.biz_name
                    ELSE IF Truthy(w.biz_name) THEN w.biz_name
                    ELSE IF FirstPageTexts(w) # <<>> THEN FirstPageTexts(w)[1]
                    ELSE SHEET_START \o <<SP>> \o Decimal(i))

\* Reached: a run that wrote a record titled by code and name and a record
\* without code or name, titled by the first line of its first page.
C14_Witness ==
    /\ main_pc = "done"
    /\ \E i, j \in 1..Len(written) :
        /\ Truthy(written[i].code) /\ Truthy(written[i].biz_name)
        /\ ~Truthy(written[j].code) /\ ~Truthy(written[j].biz_name)
        /\ FirstPageTexts(written[j]) # <<>>
        /\ written[j].title = FirstPageTexts(written[j])[1]

UsedBefore(i) == {written[j].file_name : j \in 1..(i - 1)}

\* C16: collision suffixing. A record whose base name B is not in the
\* registry gets B.md; otherwise it gets B_n.md for the smallest n >= 2 whose
\* name is not in the registry; the registry then holds the assigned name.
\* Hence three records of one base name B, B_2 and B_3 being used by no
\* other record, get B.md, B_2.md and B_3.md in encounter order.
C16_SmallestFreeSuffix ==
    /\ used_names = UsedBefore(Len(written) + 1)
    /\ \A i \in 1..Len(written) :
        LET B == written[i].base_name
            name == written[i].file_name
        IN  IF B \o DotMd \notin UsedBefore(i) THEN name = B \o DotMd
            ELSE \E n \in 2..(i + 1) :
                    /\ name = Suffixed(B, n)
                    /\ name \notin UsedBefore(i)
                    /\ \A m \in 2..(n - 1) : Suffixed(B, m) \in UsedBefore(i)
    /\ \A i, j, k \in 1..Len(written) :
        (/\ i < j /\ j < k
         /\ written[i].base_name = written[j].base_name
         /\ written[j].base_name = written[k].base_name
         /\ Len(written) = 3)
        => /\ written[i].file_name = written[i].base_name \o DotMd
           /\ written[j].file_name = Suffixed(written[i].base_name, 2)
           /\ written[k].file_name = Suffixed(written[i].base_name, 3)

\* Reached: three records of one base name written as B.md, B_2.md, B_3.md.
C16_Witness ==
    /\ main_pc = "done"
    /\ Len(written) = 3
    /\ written[1].base_name = written[2].base_name
    /\ written[2].base_name = written[3].base_name
    /\ written[1].file_name = written[1].base_name \o DotMd
    /\ written[2].file_name = Suffixed(written[1].base_name, 2)
    /\ written[3].file_name = Suffixed(written[1].base_name, 3)

C17_EveryRangeWritten ==
    /\ main_pc # "raised"
    /\ main_pc = "done" =>
        /\ Len(written) = Len(sheets)
        /\ \A i \in 1..Len(written) :
            /\ written[i].s = sheets[i].s /\ written[i].e = sheets[i].e
            /\ written[i].title # <<>>
            /\ written[i].file_name # <<>>

\* The texts of the lines of page p (1-based) of the document read.
PageTexts(p) == [k \in 1..Len(page_lines[p]) |-> page_lines[p][k].text]

\* The two-page document of the scenario: on page 1 the start marker, the
\* labeled code line, the overview header and two content lines; on page 2
\* the plan header and one content line.
ScenarioDocument ==
    /\ n_pages = 2
    /\ code_scan_pages >= 1
    /\ Len(page_lines) = 2
    /\ PageTexts(1) = <<SHEET_START,
                        JIMU_JIGYOU_CODE \o <<FWCOLON, "X", "0", "0", "1">>,
                        OVERVIEW, <<"a">>, <<"b">> >>
    /\ PageTexts(2) = << <<"P", "l", "a", "n">>, <<"c">> >>

\* C18: the end-to-end scenario. The run on the scenario document (with a
\* scan window of at least one page, as by default) does not
\* fail and writes exactly one record, of ordinal 1 and code X001, whose
\* sections are exactly overview: [line1, line2] and plan: [line3].
C18_EndToEndScenario ==
    ScenarioDocument =>
        /\ main_pc # "raised"
        /\ main_pc = "done" =>
            /\ Len(written) = 1
            /\ written[1].ordinal = 1
            /\ written[1].code = <<"X", "0", "0", "1">>
            /\ written[1].sections =
                   <<[key |-> "overview", lines |-> << <<"a">>, <<"b">> >>],
                     [key |-> "plan", lines |-> << <<"c">> >>]>>

\* Reached: the run on the scenario document is over.
C18_Witness ==
    /\ ScenarioDocument
    /\ main_pc = "done"
    /\ Len(written) = 1

\* All lines of the document, page after page
DocumentLines == PagesLines(page_lines, 0, Len(page_lines) - 1)

\* The lines of the scan window of a written record: those of the pages
\* s .. min(s + N - 1, e), pages counted from 0 (field page counts from 1)
WindowLast(w) == Min({w.s + code_scan_pages - 1, w.e})
WindowLines(w) ==
    SelectSeq(DocumentLines, LAMBDA l : w.s + 1 <= l.page /\ l.page <= WindowLast(w) + 1)

\* C22: the scan window bound. The code and the name of a written record
\* [s, e] are what the identifier extraction and the name backfill give on
\* the lines of pages s .. min(s + N - 1, e) alone, N the configured page
\* count: a known code is read on a line of those pages, never on a line of
\* a page after e; for N <= 0 the window is empty and neither is known.
C22_ScanWindowBound ==
    \A i \in 1..Len(written) :
        LET w == written[i]
            found == try_extract_code_and_name_from_lines(WindowLines(w))
        IN  /\ w.code = found.code
            /\ w.biz_name = BackfilledName(found.code, found.name, WindowLines(w))
            /\ Truthy(w.code) =>
                  \E k \in 1..Len(WindowLines(w)) :
                      /\ WindowLines(w)[k].page \in (w.s + 1)..(w.e + 1)
                      /\ Contains(normalize_token(WindowLines(w)[k].text), w.code)
            /\ code_scan_pages <= 0 =>
                  /\ WindowLines(w) = <<>>
                  /\ ~Truthy(w.code) /\ ~Truthy(w.biz_name)

\* Reached: with N = 1, a record of two pages whose second page carries a
\* labelled code was written without a code, and the record after it, whose
\* first page carries a code, with one.
C22_Witness ==
    /\ code_scan_pages = 1
    /\ \E i \in 1..Len(written) :
          /\ written[i].e = written[i].s + 1
          /\ ~Truthy(written[i].code)
          /\ Truthy(try_extract_code_and_name_from_lines(page_lines[written[i].e + 1]).code)
    /\ \E j \in 1..Len(written) : Truthy(written[j].code)

\* A line the name backfill accepts: its normalized (trimmed) text does not
\* contain the code-label keyword, has 3 to 40 glyphs and contains the
\* domain keyword.
BackfillCandidate(l) ==
    LET t == normalize_token(l.text)
    IN  /\ ~Contains(t, CODE)
        /\ 3 <= Len(t) /\ Len(t) <= 40
        /\ Contains(t, JIGYOU)

\* Positions of the accepted lines among the first 40 lines of the window
BackfillPositions(w) ==
    {k \in 1..Min({40, Len(WindowLines(w))}) : BackfillCandidate(WindowLines(w)[k])}

\* C24: the name backfill (checked under SpecLongPage). It runs only when the
\* extraction found a code and no name; the name then becomes the trimmed
\* text of the first line, among the first 40 lines of the scan window, that
\* does not contain the code-label keyword, has trimmed length 3 to 40 and
\* contains the domain keyword; without such a line the name stays absent.
\* The code is unchanged in every case.
C24_NameBackfill ==
    \A i \in 1..Len(written) :
        LET w == written[i]
            found == try_extract_code_and_name_from_lines(WindowLines(w))
        IN  /\ w.code = found.code
            /\ w.biz_name =
                   (IF Truthy(found.code) /\ ~Truthy(found.name) /\ BackfillPositions(w) # {}
                    THEN normalize_token(WindowLines(w)[Min(BackfillPositions(w))].text)
                    ELSE found.name)

\* Reached: a record with a labelled code whose name is the 40th line of the
\* window, 40 glyphs long after trimming, the 41st line being acceptable
\* too.
C24_Witness ==
    /\ Len(written) = 1
    /\ written[1].code = <<"A">>
    /\ Len(WindowLines(written[1])) = 41
    /\ BackfillPositions(written[1]) = {40}
    /\ BackfillCandidate(WindowLines(written[1])[41])
    /\ written[1].biz_name = LongText(40)

\* C26: the identifier invariant. After extraction and name backfill a
\* written record never has a name without a code; so its title is never the
\* name alone, and the file name of every record without a code has the
\* form sheet<two-digit ordinal>_<prefix of the title>.
C26_NameImpliesCode ==
    \A i \in 1..Len(written) :
        LET w == written[i]
        IN  /\ Truthy(w.biz_name) => Truthy(w.code)
            /\ Truthy(w.biz_name) => w.title # w.biz_name
            /\ ~Truthy(w.code) =>
                  /\ StartsAt(w.file_name, 1, SheetPrefix(i))
                  /\ w.base_name =
                         safe_filename(SheetPrefix(i) \o Prefix(normalize_token(w.title), 20))

\* Reached: a run that wrote a record without code or name, although a line
\* of its window carries the domain keyword, and a record with both.
C26_Witness ==
    /\ main_pc = "done"
    /\ \E i, j \in 1..Len(written) :
          /\ ~Truthy(written[i].code) /\ ~Truthy(written[i].biz_name)
          /\ \E k \in 1..Len(WindowLines(written[i])) :
                BackfillCandidate(WindowLines(written[i])[k])
          /\ StartsAt(written[i].file_name, 1, SheetPrefix(i))
          /\ Truthy(written[j].code) /\ Truthy(written[j].biz_name)

\* The label line at which the label-proximity strategy returns, as a
\* position among the lines ls (0 when it returns at none)
RECURSIVE ReturningLabel(_, _)
ReturningLabel(ls, k) ==
    IF k > Len(ls) THEN 0
    ELSE IF IsLabelLine(ls[k]) /\ LabelLineCode(ls, ls[k]) # NoneText THEN k
    ELSE ReturningLabel(ls, k + 1)

\* The first of the first three candidates whose token is not empty
FirstWithToken(cands, tok(_)) ==
    LET ks == {k \in 1..Min({3, Len(cands)}) : Truthy(tok(cands[k]))}
    IN  IF ks = {} THEN <<>> ELSE <<cands[Min(ks)]>>

\* The line whose token the strategy returns for the label line ln: a
\* right-hand candidate, else a candidate below
SelectedLine(ls, ln) ==
    LET right == FirstWithToken(RightCandidates(ls, ln),
                     LAMBDA c : FirstTokenIfSpaced(normalize_token(c.text)))
        below == FirstWithToken(BelowCandidates(ls, ln),
                     LAMBDA c : normalize_token(c.text))
    IN  IF right # <<>> THEN right[1] ELSE below[1]

\* C30: in the label-proximity strategy the line whose token is returned as
\* the code lies on the page of the label line; a line of another page of
\* the scan window is never selected as right-hand or below candidate.
C30_SelectedLineOnLabelPage ==
    \A i \in 1..Len(written) :
        LET ls == WindowLines(written[i])
            k == ReturningLabel(ls, 1)
        IN  (~Truthy(InlineLabelCode(ls)) /\ k > 0) =>
                /\ try_extract_code_from_lines(ls) = LabelLineCode(ls, ls[k])
                /\ SelectedLine(ls, ls[k]).page = ls[k].page

----------------------------------------------------------------------------
(* Properties of the identifier cascade, checked under SpecIdent.          *)

\* What each strategy alone yields on id_lines.
FirstReLine == FirstIndex(id_lines, LAMBDA l : ReLineMatches(l.text))
FirstTokenSplit == FirstIndex(id_lines, LAMBDA l : TokenSplitMatches(l.text))
PatternName ==
    IF FirstReLine > 0 THEN ReLineGroups(id_lines[FirstReLine].text).name
    ELSE IF FirstTokenSplit > 0 THEN TokenSplitGroups(id_lines[FirstTokenSplit].text).name
    ELSE NoneText
PatternCode ==
    IF FirstReLine > 0 THEN ReLineGroups(id_lines[FirstReLine].text).code
    ELSE IF FirstTokenSplit > 0 THEN TokenSplitGroups(id_lines[FirstTokenSplit].text).code
    ELSE NoneText
LabelCode ==
    IF Truthy(InlineLabelCode(id_lines)) THEN InlineLabelCode(id_lines)
    ELSE SpatialLabelCode(id_lines)

\* C4 as stated: each field comes from the earliest succeeding strategy in
\* the order inline label, spatial label, combined pattern, token split; so
\* a code the label strategies yield is the returned code.
C4_LabelStrategiesFirst ==
    id_pc = "done" =>
        /\ id_result.code = (IF Truthy(LabelCode) THEN LabelCode ELSE PatternCode)
        /\ id_result.name = PatternName

\* C4 amended: each field comes from the earliest succeeding strategy in the
\* order combined pattern, token split, inline label, spatial label; a code
\* the label strategies yield is returned only when no line matches the
\* combined pattern or the token split.
C4_PatternStrategiesFirst ==
    id_pc = "done" =>
        /\ id_result.code = (IF Truthy(PatternCode) THEN PatternCode ELSE LabelCode)
        /\ id_result.name = PatternName

\* Reached: the label strategies yield a code, a line pattern yields another
\* one, and the extraction has returned.
C4_Witness ==
    /\ id_pc = "done"
    /\ Truthy(LabelCode)
    /\ Truthy(PatternCode)
    /\ PatternCode # LabelCode

\* C5: when some line matches the combined pattern, the returned pair is the
\* code and name of the first such line, whatever the label strategies
\* found and whatever earlier line the token split would accept.
C5_FirstCombinedLineWins ==
    (id_pc = "done" /\ FirstReLine > 0) =>
        id_result = ReLineGroups(id_lines[FirstReLine].text)

\* Reached: a line the token split accepts and the combined pattern rejects
\* precedes the first combined line, and the label strategies found a code.
C5_Witness ==
    /\ id_pc = "done"
    /\ FirstReLine > 1
    /\ FirstTokenSplit > 0
    /\ FirstTokenSplit < FirstReLine
    /\ Truthy(code_only)
    /\ code_only # id_result.code

\* The first whitespace-delimited token of a text, empty when it has none
FirstWord(t) ==
    LET u == LStrip(t)
    IN  SubSeq(u, 1, RunLenNot(u, 1, Whitespace))

\* Label line k of id_lines is the one the spatial strategy falls below of:
\* no label line before it yields a code, nothing qualifies to its right, and
\* some line lies below it inside the band.
BelowFallbackAt(k) ==
    /\ ~Truthy(InlineLabelCode(id_lines))
    /\ IsLabelLine(id_lines[k])
    /\ \A j \in 1..(k - 1) :
          IsLabelLine(id_lines[j]) => ~Truthy(LabelLineCode(id_lines, id_lines[j]))
    /\ \A l \in Range(RightCandidates(id_lines, id_lines[k])) :
          FirstWord(normalize_token(l.text)) = <<>>
    /\ BelowCandidates(id_lines, id_lines[k]) # <<>>

\* The nearest line below label line k inside the band
NearestBelow(k) == BelowCandidates(id_lines, id_lines[k])[1]

\* C23: the below-fallback of the spatial strategy. When a label line has no
\* qualifying candidate to its right, the code is the first non-empty
\* whitespace-delimited token of the nearest line strictly below the label
\* line inside the horizontal band; only that nearest line is consulted (a
\* nearest line without a token gives no code for this label line), and the
\* code contains no whitespace.
C23_BelowFallbackToken ==
    id_pc # "idle" =>
        \A k \in 1..Len(id_lines) :
            BelowFallbackAt(k) =>
                LET word == FirstWord(normalize_token(NearestBelow(k).text))
                IN  /\ word # <<>> => code_only = word
                    /\ (word = <<>> /\ \A j \in (k + 1)..Len(id_lines) : ~IsLabelLine(id_lines[j]))
                           => ~Truthy(code_only)
                    /\ Truthy(code_only) => Range(code_only) \cap Whitespace = {}

----------------------------------------------------------------------------
(* Properties of find_sections, checked under SpecSections (C12: under    *)
(* SpecResplit).                                                          *)

\* The patterns (as indices of HeaderKeys) that match line i of all_lines.
MatchingPatterns(i) ==
    {k \in 1..Len(HeaderKeys) : PatternSearch(HeaderKeys[k], all_lines[i].text)}
IsHeaderLine(i) == MatchingPatterns(i) # {}
KeyOfHeader(i) == HeaderKeys[Min(MatchingPatterns(i))]
HeadersBefore(j) == {i \in 1..(j - 1) : IsHeaderLine(i)}

\* Line j is a body line of key: not a header, not empty, and the nearest
\* header above it has that key.
IsBodyLineOf(key, j) ==
    /\ ~IsHeaderLine(j)
    /\ all_lines[j].text # <<>>
    /\ HeadersBefore(j) # {}
    /\ KeyOfHeader(Max(HeadersBefore(j))) = key

BodyOf(key) ==
    LET js == SelectSeq([j \in 1..Len(all_lines) |-> j], LAMBDA j : IsBodyLineOf(key, j))
    IN  [k \in 1..Len(js) |-> all_lines[js[k]].text]

\* C10: section slicing. When the record has a header, the returned mapping
\* has exactly the keys of its headers (the key of a header being that of the
\* first pattern in declaration order that matches it), and under each key
\* the non-empty lines lying between a header of that key and the next
\* header or the end, in positional order, header lines excluded.
C10_SectionSlicing ==
    (fs_pc = "done" /\ \E i \in 1..Len(all_lines) : IsHeaderLine(i)) =>
        \A key \in Range(HeaderKeys) \cup {"document"} :
            LET entries == {k \in 1..Len(sections) : sections[k].key = key}
            IN  IF \E i \in 1..Len(all_lines) : IsHeaderLine(i) /\ KeyOfHeader(i) = key
                THEN /\ Cardinality(entries) = 1
                     /\ \A k \in entries : sections[k].lines = BodyOf(key)
                ELSE entries = {}

\* Reached: two headers of one key, each followed by a content line, the
\* second header matching two patterns.
C10_Witness ==
    /\ fs_pc = "done"
    /\ \E i, j \in 1..Len(all_lines) :
        /\ i + 1 < j
        /\ j < Len(all_lines)
        /\ IsHeaderLine(i)
        /\ IsHeaderLine(j)
        /\ KeyOfHeader(i) = KeyOfHeader(j)
        /\ Cardinality(MatchingPatterns(j)) = 2
        /\ IsBodyLineOf(KeyOfHeader(i), i + 1)
        /\ IsBodyLineOf(KeyOfHeader(i), j + 1)

\* C11: when no line of the record matches a header pattern, the returned
\* mapping has the single key document, holding every non-empty line of the
\* record in order; and whatever the record, the key document never occurs
\* together with another key.
C11_DocumentFallback ==
    fs_pc = "done" =>
        /\ (\A i \in 1..Len(all_lines) : ~IsHeaderLine(i)) =>
               sections = <<[key |-> "document",
                             lines |-> SelectSeq([k \in 1..Len(all_lines) |-> all_lines[k].text],
                                                 LAMBDA t : t # <<>>)]>>
        /\ (\E k \in 1..Len(sections) : sections[k].key = "document") =>
               Len(sections) = 1

\* Reached: a record without a header, with an empty line between two
\* content lines, split into its document section.
C11_Witness ==
    /\ fs_pc = "done"
    /\ Len(all_lines) = 3
    /\ \A i \in 1..Len(all_lines) : ~IsHeaderLine(i)
    /\ all_lines[1].text # <<>>
    /\ all_lines[2].text = <<>>
    /\ all_lines[3].text # <<>>
    /\ sections[1].key = "document"
    /\ Len(sections[1].lines) = 2

\* Header lines that can be reinserted for a key: the texts of the pool
\* whose first matching pattern is the pattern of that key.
HeaderTextsOf(key) ==
    {t \in SecTexts : FirstPattern(t) > 0 /\ HeaderKeys[FirstPattern(t)] = key}

\* The line sequence rebuilt from a mapping: per key in the mapping's order,
\* the header line chosen for the key (none for document, which has no
\* header pattern) followed by the body lines.
RECURSIVE Rebuilt(_, _, _)
Rebuilt(secs, hdr, k) ==
    IF k > Len(secs) THEN <<>>
    ELSE (IF secs[k].key = "document" THEN <<>>
          ELSE <<MkLine(hdr[secs[k].key], 0, 0, Len(hdr[secs[k].key]))>>)
         \o [j \in 1..Len(secs[k].lines) |->
                MkLine(secs[k].lines[j], 0, 0, Len(secs[k].lines[j]))]
         \o Rebuilt(secs, hdr, k + 1)

AsMapping(secs) == {secs[k] : k \in 1..Len(secs)}

\* C12: section idempotence. Whatever header line of the pool is reinserted
\* for its key (the other keys getting their display name as header line),
\* splitting the line sequence rebuilt from the sections of a record yields
\* the same mapping from key to body lines.
C12_ResplitIsIdentity ==
    fs_pc = "done" =>
        \A t \in {u \in SecTexts : FirstPattern(u) > 0} :
            LET hdr == [key \in Range(HeaderKeys) |->
                           IF t \in HeaderTextsOf(key) THEN t ELSE SectionNames(key)]
            IN  AsMapping(find_sections(Rebuilt(sections, hdr, 1))) = AsMapping(sections)

\* Reached: a record split into two sections, one of them gathered from two
\* headers that enclose the other section's header, each with a body line.
C12_Witness ==
    /\ fs_pc = "done"
    /\ Len(all_lines) = 4
    /\ Len(sections) = 2
    /\ IsHeaderLine(1) /\ IsHeaderLine(2) /\ IsHeaderLine(3)
    /\ KeyOfHeader(1) = KeyOfHeader(3)
    /\ KeyOfHeader(1) # KeyOfHeader(2)
    /\ Len(sections[1].lines) = 1

\* The positions of the lines that belong to a body: non-empty, no header,
\* and after the first header
ConservedPositions ==
    {j \in 1..Len(all_lines) :
        /\ ~IsHeaderLine(j)
        /\ all_lines[j].text # <<>>
        /\ HeadersBefore(j) # {}}

\* The texts of those lines, in order
ConservedTexts ==
    LET js == SelectSeq([j \in 1..Len(all_lines) |-> j], LAMBDA j : j \in ConservedPositions)
    IN  [k \in 1..Len(js) |-> all_lines[js[k]].text]

\* a is a subsequence of b
RECURSIVE IsSubsequence(_, _)
IsSubsequence(a, b) ==
    IF a = <<>> THEN TRUE
    ELSE IF b = <<>> THEN FALSE
    ELSE IF Head(a) = Head(b) THEN IsSubsequence(Tail(a), Tail(b))
    ELSE IsSubsequence(a, Tail(b))

\* How often text t occurs in the bodies of all sections together
RECURSIVE OccurrencesInSections(_, _)
OccurrencesInSections(t, k) ==
    IF k > Len(sections) THEN 0
    ELSE Cardinality({j \in 1..Len(sections[k].lines) : sections[k].lines[j] = t})
         + OccurrencesInSections(t, k + 1)

\* C27: line conservation. When at least one header matches, every
\* non-empty line that is no header and lies after the first header occurs
\* exactly once in the section bodies taken together (each text as often as
\* among those lines), in its original relative order within its section;
\* header lines and the lines before the first header are in no section.
C27_LineConservation ==
    (fs_pc = "done" /\ \E i \in 1..Len(all_lines) : IsHeaderLine(i)) =>
        /\ \A t \in SecTexts :
              OccurrencesInSections(t, 1)
                  = Cardinality({j \in ConservedPositions : all_lines[j].text = t})
        /\ \A k \in 1..Len(sections) :
              /\ IsSubsequence(sections[k].lines, ConservedTexts)
              /\ \A j \in 1..Len(sections[k].lines) : sections[k].lines[j] \in SecTexts

\* Reached: a record whose first line precedes the first header and has the
\* text of a body line, with a header, a body line, an empty line.
C27_Witness ==
    /\ fs_pc = "done"
    /\ Len(all_lines) = 4
    /\ ~IsHeaderLine(1) /\ all_lines[1].text # <<>>
    /\ IsHeaderLine(2)
    /\ all_lines[3].text = all_lines[1].text
    /\ all_lines[4].text = <<>>
    /\ Len(sections) = 1
    /\ sections[1].lines = <<all_lines[1].text>>

----------------------------------------------------------------------------
(* Properties of extract_lines, checked under SpecLines.                   *)

\* Positions of lines whose cluster holds character k of page_chars.
LinesOf(k) == {i \in 1..Len(lines) : k \in Range(lines[i].cur)}

\* C6: line partitioning. Once extract_lines has returned, every input
\* character is a member of exactly one output line, once, and that line's
\* box contains the character's box.
C6_LinePartitioning ==
    el_pc = "done" =>
        \A k \in 1..Len(page_chars) :
            /\ Cardinality(LinesOf(k)) = 1
            /\ \A i \in LinesOf(k) :
                /\ Cardinality({j \in 1..Len(lines[i].cur) : lines[i].cur[j] = k}) = 1
                /\ lines[i].x0 <= page_chars[k].x0
                /\ lines[i].y0 <= page_chars[k].top
                /\ page_chars[k].x1 <= lines[i].x1
                /\ page_chars[k].bottom <= lines[i].y1

\* Reached: a page of three characters returned as two lines, one of them
\* holding two characters of different boxes.
C6_Witness ==
    /\ el_pc = "done"
    /\ Len(page_chars) = 3
    /\ Len(lines) = 2
    /\ \E i \in 1..Len(lines) :
        /\ Len(lines[i].cur) = 2
        /\ page_chars[lines[i].cur[1]] # page_chars[lines[i].cur[2]]

\* C7: every line extract_lines returns has non-empty stripped text.
C7_NoEmptyLine ==
    el_pc = "done" => \A i \in 1..Len(lines) : lines[i].text # <<>>

\* C8 as stated: two characters of one output line have tops that differ by
\* at most line_tol.
C8_SpreadWithinTolerance ==
    el_pc = "done" =>
        \A i \in 1..Len(lines) : \A a, b \in Range(lines[i].cur) :
            Abs(page_chars[a].top - page_chars[b].top) <= line_tol

\* The running reference after the first n members of cluster cl, as a
\* fraction: the first top, then 7/10 of the reference plus 3/10 of the top.
RECURSIVE RefAfter(_, _)
RefAfter(cl, n) ==
    IF n = 1 THEN [num |-> page_chars[cl[1]].top, den |-> 1]
    ELSE LET r == RefAfter(cl, n - 1)
         IN  [num |-> 7 * r.num + 3 * page_chars[cl[n]].top * r.den,
              den |-> 10 * r.den]

\* C8 amended: every member of an output line after the first has a top
\* within line_tol of the line's running reference at the time it joined.
C8_WithinToleranceOfReference ==
    el_pc = "done" =>
        \A i \in 1..Len(lines) : \A n \in 2..Len(lines[i].cur) :
            LET r == RefAfter(lines[i].cur, n - 1)
                top == page_chars[lines[i].cur[n]].top
            IN  Abs(top * r.den - r.num) <= line_tol * r.den

\* Reached: a line of three characters whose tops spread over more than
\* line_tol.
C8_Witness ==
    /\ el_pc = "done"
    /\ \E i \in 1..Len(lines) :
        /\ Len(lines[i].cur) = 3
        /\ \E a, b \in Range(lines[i].cur) :
            page_chars[a].top - page_chars[b].top > line_tol

\* C9: reading order. The returned list is sorted by (y0, x0).
C9_ReadingOrder ==
    el_pc = "done" =>
        \A i, j \in 1..Len(lines) :
            i < j => \/ lines[i].y0 < lines[j].y0
                     \/ lines[i].y0 = lines[j].y0 /\ lines[i].x0 <= lines[j].x0

\* Reached: a returned list with two lines of the same y0 and another line
\* below them.
C9_Witness ==
    /\ el_pc = "done"
    /\ Len(lines) = 3
    /\ lines[1].y0 = lines[2].y0
    /\ lines[1].x0 < lines[2].x0
    /\ lines[2].y0 < lines[3].y0

\* The key (top, x0) of the character at position k of the sorted sequence.
TopAt(k) == page_chars[chars[k]].top
LeftAt(k) == page_chars[chars[k]].x0

\* The characters are visited in ascending (top, x0) order.
VisitedInOrder ==
    el_pc # "idle" =>
        \A j, k \in 1..Len(chars) :
            j < k => TopAt(j) < TopAt(k) \/ (TopAt(j) = TopAt(k) /\ LeftAt(j) <= LeftAt(k))

\* Each returned line is a contiguous run of the sorted sequence.
ContiguousRuns ==
    el_pc = "done" =>
        \A i \in 1..Len(lines) :
            \E a \in 1..Len(chars) :
                lines[i].cur = SubSeq(chars, a, a + Len(lines[i].cur) - 1)

\* One visit of the loop: the character at position ci and what becomes of
\* it. The reference is the fraction last_top.num / last_top.den.
VisitRule ==
    (el_pc = "loop" /\ ci <= Len(chars)) =>
        LET ch == chars[ci]
            top == TopAt(ci)
            opens == /\ cur' = <<ch>>
                     /\ last_top'.num = top * last_top'.den
        IN  IF cur = <<>> THEN opens /\ lines' = lines
            ELSE IF Abs(top * last_top.den - last_top.num) <= line_tol * last_top.den
            THEN /\ cur' = Append(cur, ch)
                 /\ 10 * last_top.den * last_top'.num
                        = (7 * last_top.num + 3 * top * last_top.den) * last_top'.den
                 /\ lines' = lines
            ELSE /\ opens
                 /\ Len(lines') = Len(lines) + 1
                 /\ SubSeq(lines', 1, Len(lines)) = lines
                 /\ lines'[Len(lines')].cur = cur

\* C20: the clustering rule. Characters are visited in ascending (top, x0)
\* order; the first character of a cluster sets the reference to its top; a
\* later character joins the cluster exactly when its top is within
\* line_tol of the reference, which then becomes 0.7*reference + 0.3*top, and
\* otherwise the cluster is flushed as one line and the character opens a new
\* cluster. So each line is a contiguous run of the sorted characters.
C20_ClusteringRule ==
    /\ [](VisitedInOrder /\ ContiguousRuns)
    /\ [][VisitRule]_vars

\* Reached: three characters of tops 0, 3, 6 with tolerance 5; the second
\* joined the first, the third was farther than 5 from the reference 0.9 and
\* opened a second line.
C20_Witness ==
    /\ el_pc = "done"
    /\ line_tol = 5
    /\ Len(chars) = 3
    /\ TopAt(1) = 0 /\ TopAt(2) = 3 /\ TopAt(3) = 6
    /\ Len(lines) = 2
    /\ \E i \in 1..2 : lines[i].cur = SubSeq(chars, 1, 2)

\* The members of a cluster in some order of ascending x0
X0Orders(cl) ==
    { ord \in [1..Len(cl) -> Range(cl)] :
        /\ \A j, k \in 1..Len(cl) : j # k => ord[j] # ord[k]
        /\ \A k \in 2..Len(cl) : page_chars[ord[k - 1]].x0 <= page_chars[ord[k]].x0 }

\* The horizontal gap in front of member k of an ordered cluster
GapBefore(ord, k) == page_chars[ord[k]].x0 - page_chars[ord[k - 1]].x1

\* The position of member k in the text parts: one place for each member up
\* to k and one for each gap up to k that exceeds the tolerance
PartPosition(ord, k) ==
    k + Cardinality({j \in 2..k : GapBefore(ord, j) > gap_tol})

FirstVisit(i) == CHOOSE a \in 1..Len(chars) : chars[a] = lines[i].cur[1]

\* C25 (checked under SpecTies): for line_tol >= 0, any two distinct lines
\* returned for a page have y0 values that differ by more than line_tol; so
\* no two lines share a y0, the reading order is strict, and the final sort
\* leaves the lines in the order in which their clusters were flushed.
C25_LinesFartherThanTolerance ==
    (el_pc = "done" /\ line_tol >= 0) =>
        /\ \A i, j \in 1..Len(lines) :
              i # j => Abs(lines[i].y0 - lines[j].y0) > line_tol
        /\ \A i, j \in 1..Len(lines) :
              i < j => /\ lines[i].y0 < lines[j].y0
                       /\ FirstVisit(i) < FirstVisit(j)

----------------------------------------------------------------------------
(* Properties of the importer, checked under SpecImport                     *)

\* The rows of the database that belong to the program of the given code
RowsOfCode(prog, children, code) ==
    LET ids == {prog[k].id : k \in {j \in 1..Len(prog) : prog[j].code = code}}
    IN  [program |-> {prog[k] : k \in {j \in 1..Len(prog) : prog[j].code = code}},
         children |-> {r \in children : r.program_id \in ids}]

\* The first import of the code in the history of import_program calls
FirstImportOf(code) ==
    import_log[CHOOSE k \in 1..Len(import_log) :
                  /\ import_log[k].code = code
                  /\ \A j \in 1..(k - 1) : import_log[j].code # code]

\* At most one program row for each code, carrying the payload of the
\* first import of that code
OneRowPerCode ==
    \A k \in 1..Len(program) :
        /\ \A j \in 1..Len(program) : program[j].code = program[k].code => j = k
        /\ \E i \in 1..Len(import_log) : import_log[i].code = program[k].code
        /\ program[k].name = FirstImportOf(program[k].code).name

\* A step of import_program on a program whose code is in the program table
SkipStep ==
    /\ imp_pc = "programs"
    /\ cur_programs # <<>>
    /\ program_exists(program, Head(cur_programs).code)
    /\ import_log' # import_log

\* C19: the importer is append-only by program code. import_program on a
\* program whose code is already in the program table inserts, updates and
\* deletes no row of that program and returns None; and after any sequence
\* of imports (a file read again by a later run, several files in sorted
\* order) the program table has at most one row for each code, which is the
\* row of the first import of that code.
C19_AppendOnlyByCode ==
    /\ []OneRowPerCode
    /\ [][SkipStep =>
            LET code == Head(cur_programs).code
            IN  /\ RowsOfCode(program', child_rows', code) = RowsOfCode(program, child_rows, code)
                /\ program' = program
                /\ import_log'[Len(import_log')].ret = None]_vars

\* Witness for C19: a second run has read a file again; a program of code P1
\* was imported first with one payload and met again with the other payload
\* and skipped, and the table holds the first one.
C19_Witness ==
    /\ runs = 1
    /\ imp_pc = "programs"
    /\ \E i, j \in 1..Len(import_log) :
          /\ i < j
          /\ import_log[i].code = "P1" /\ import_log[i].ret = "P1"
          /\ import_log[j].code = "P1" /\ import_log[j].ret = None
          /\ import_log[j].name # import_log[i].name
    /\ \E k \in 1..Len(program) : program[k].code = "P1" /\ program[k].name = "n1"
    /\ \E k \in 1..Len(program) : program[k].code = "P2"

\* The calls of import_program that raised after the core row of the
\* program was inserted: the code is there and no call imported that code
RaisedAfterCore ==
    {k \in 1..Len(import_log) :
        /\ import_log[k].ret = Raised
        /\ import_log[k].code # ""}

\* C28: import atomicity per program. If import_program raises for a
\* program after its core row was inserted, then once the run has finished
\* the database holds no program row and no child row for the code of that
\* program (unless another call imported that code in full).
C28_ImportAtomicity ==
    (imp_pc = "idle" /\ runs > 0) =>
        \A k \in RaisedAfterCore :
            (\A j \in 1..Len(import_log) :
                import_log[j].code = import_log[k].code => import_log[j].ret # import_log[k].code)
            => LET rows == RowsOfCode(program, child_rows, import_log[k].code)
               IN  rows.program = {} /\ rows.children = {}

----------------------------------------------------------------------------
(* Properties of the converter and the loader, checked under SpecConvert   *)

\* The program object loaded for the code of domain program p
LoadedOf(p) ==
    loaded_programs[CHOOSE k \in 1..Len(loaded_programs) : loaded_programs[k].code = p.code]

\* The blocks of a program object that a statement names, a missing list
\* being the empty one; the change of the plan is read from the plan block
\* or from the top-level plan_change_note
ModesOf(p) == _ensure_list(SubDict(p, "implementation"), "modes")
LinkedPlansOf(p) == _ensure_list(SubDict(p, "policy_links"), "linked_plans")
SdgGoalsOf(p) == _ensure_list(SubDict(SubDict(p, "policy_links"), "sdgs"), "goals")
SdgTargetsOf(p) == _ensure_list(SubDict(SubDict(p, "policy_links"), "sdgs"), "targets")
PlanItemsOf(p) == _ensure_list(SubDict(p, "plan"), "action_items")
PlanChangeOf(p) ==
    LET ch == IF Has(SubDict(p, "plan"), "change_from_initial_plan")
              THEN p.plan.change_from_initial_plan ELSE SubDict(p, "plan_change_note")
    IN  Keep(ch, "change_points") @@ Keep(ch, "change_reason")
ScoresOf(p) == _ensure_list(SubDict(p, "evaluation_check"), "scores")
ContributionOf(p) == SubDict(SubDict(p, "evaluation_check"), "contribution")
NextYearItemsOf(p) == _ensure_list(SubDict(p, "action_improvement"), "next_year_action_items")

\* The blocks that come back as they were
SameTables(p, q) ==
    /\ ModesOf(q) = ModesOf(p)
    /\ LinkedPlansOf(q) = LinkedPlansOf(p)
    /\ _ensure_list(q, "finance") = _ensure_list(p, "finance")
    /\ PlanItemsOf(q) = PlanItemsOf(p)
    /\ _ensure_list(q, "results_do") = _ensure_list(p, "results_do")
    /\ _ensure_list(q, "indicators") = _ensure_list(p, "indicators")
    /\ ScoresOf(q) = ScoresOf(p)
    /\ ContributionOf(q) = ContributionOf(p)
    /\ NextYearItemsOf(q) = NextYearItemsOf(p)

\* C29: the round trip between the converter and the importer. For a domain
\* program with a code, domain_to_dbjson followed by the transform of the
\* loader yields a program object with the same implementation modes, linked
\* plans, SDG goals and targets, finance rows with funding breakdown, plan
\* action items, plan-change points and reason, results, indicators with
\* values, evaluation scores, contribution and next-year action items.
C29_RoundTrip ==
    conv_pc = "loaded" =>
        \A i \in 1..Len(doc_programs) :
            HasText(doc_programs[i], "code") =>
                LET p == doc_programs[i]
                    q == LoadedOf(p)
                IN  /\ \E k \in 1..Len(loaded_programs) : loaded_programs[k].code = p.code
                    /\ SameTables(p, q)
                    /\ SdgGoalsOf(q) = SdgGoalsOf(p)
                    /\ SdgTargetsOf(q) = SdgTargetsOf(p)
                    /\ PlanChangeOf(q) = PlanChangeOf(p)

\* What does come back: every block but the SDG goals and targets and the
\* change of the plan
RoundTripOfTables ==
    conv_pc = "loaded" =>
        \A i \in 1..Len(doc_programs) :
            HasText(doc_programs[i], "code") => SameTables(doc_programs[i], LoadedOf(doc_programs[i]))

====
